---- MODULE Spec2Model ----
(***************************************************************************)
(* Model of the WLST health-check scripts src/wlst_health_checks.py (the   *)
(* "root" variant) and src/HC/wlst_health_checks.py (the "HC" variant):    *)
(* the collection normalizer, the error-key tracker, the section fetchers, *)
(* gather and main; and of run_wlst, the function of the command-line      *)
(* wrappers src/middleware_healthcheck.py and                              *)
(* src/HC/middleware_healthcheck.py that runs such a script and decodes    *)
(* what it printed, and the reporting functions of those wrappers that     *)
(* consume the decoded payload.                                            *)
(*                                                                         *)
(* Python values are tagged records [t |-> tag, v |-> content]:            *)
(*   None   [t |-> "null", v |-> 0]        str   [t |-> "str",  v |-> s]   *)
(*   int    [t |-> "num",  v |-> n]        bool  [t |-> "bool", v |-> b]   *)
(*   list   [t |-> "list", v |-> <<...>>]  dict  [t |-> "map",  v |-> f]   *)
(* where f is a function from keys (Python values) to Python values.       *)
(* An exception leaving a function is the value Raise.                     *)
(***************************************************************************)
EXTENDS Integers, Sequences, FiniteSets, TLC

VARIABLES
    variant,         \* which script runs: "root" or "HC"
    argv,            \* process: [check, admin_url, username, password] from sys.argv
    fixture,         \* process: what WLST_SAMPLE_OUTPUT points at
    pc,              \* process: position of the invocation
    sample,          \* process: what load_sample_payload returned
    payload,         \* process: the dict gather is assembling / main holds
    stdout,          \* process: the JSON values written to standard output
    calls,           \* process: backend calls made so far, "connect" and fetcher names
    connected,       \* process: outcome of connect_if_available
    domain,          \* process: outcome of gather's own domainRuntime() check (HC)
    flaky,           \* process: the sections whose backend subtree may fail
    error_counters,  \* process: the module-level _error_counters dict (HC variant)
    invocation,      \* process: number of gather invocations started
    errlog,          \* process: error keys recorded, as [invocation, section, key]
    klog,            \* error tracker: [category, key] per _get_error_key call
    fsection,        \* fetcher: the section whose fetcher runs
    fbackend,        \* fetcher: what the backend does during the call
    fresult,         \* fetcher: the map the fetcher returned
    fpc,             \* fetcher: "start", "done"
    nvalue,          \* normalizer: the value handed to normalize_collections
    nkey,            \* normalizer: the current_key argument
    nout,            \* normalizer: normalize_collections(nvalue, nkey)
    nout2,           \* normalizer: normalize_collections(nout, nkey)
    npc,             \* normalizer: "start", "once", "twice"
    wconf,           \* run_wlst: [configured, continue_on_error] from the arguments
    wproc,           \* run_wlst: what the external process does
    wdoc,            \* run_wlst: the JSON document embedded in the output, if one is
    wout,            \* run_wlst: [returned, messages, invoked]
    wpc,             \* run_wlst: "start", "done"
    heap,            \* object store: the lists and dicts alive, by address
    hvalue,          \* object store: the JSON value the input was loaded from
    hkey,            \* object store: the current_key argument
    href,            \* object store: the argument of normalize_collections
    hout,            \* object store: what normalize_collections returned
    hpc,             \* object store: "start", "done"
    rsection,        \* report: the section the reporting function reads
    ritems,          \* report: the records of that section, as a list
    rlisted,         \* report: what the function reports for the list
    rmapped,         \* report: what it reports for the map gather emits
    rpc              \* report: "start", "listed", "mapped", "done"

procVars == <<argv, fixture, pc, sample, payload, stdout, calls, connected,
              domain, flaky, invocation, errlog>>
keyVars == <<klog>>
fetchVars == <<fsection, fbackend, fresult, fpc>>
normVars == <<nvalue, nkey, nout, nout2, npc>>
wlstVars == <<wconf, wproc, wdoc, wout, wpc>>
heapVars == <<heap, hvalue, hkey, href, hout, hpc>>
repVars == <<rsection, ritems, rlisted, rmapped, rpc>>
vars == <<variant, error_counters, procVars, keyVars, fetchVars, normVars, wlstVars,
          heapVars, repVars>>

Variants == {"root", "HC"}

---------------------------------------------------------------------------
(* Python values *)

JNull == [t |-> "null", v |-> 0]
JStr(s) == [t |-> "str", v |-> s]
JNum(n) == [t |-> "num", v |-> n]
JBool(b) == [t |-> "bool", v |-> b]
JList(l) == [t |-> "list", v |-> l]
JMap(f) == [t |-> "map", v |-> f]
EmptyMap == JMap(<<>>)
\* An exception propagating out of a call (TypeError, ValueError, ...).
Raise == [t |-> "raise", v |-> 0]

\* Python truth value of a value (what "x or y", "not x", "if x" test).
Truthy(x) ==
    CASE x.t = "null" -> FALSE
      [] x.t = "str"  -> x.v # ""
      [] x.t = "num"  -> x.v # 0
      [] x.t = "bool" -> x.v
      [] x.t = "list" -> Len(x.v) > 0
      [] x.t = "map"  -> DOMAIN x.v # {}
      [] OTHER        -> TRUE

\* x or y
PyOr(x, y) == IF Truthy(x) THEN x ELSE y

\* Lists and dicts are unhashable: using one as a dict key raises TypeError.
Hashable(x) == x.t \notin {"list", "map"}

\* Equality of dict keys: True == 1 and False == 0 hash and compare equal.
NumOf(x) == IF x.t = "bool" THEN (IF x.v THEN 1 ELSE 0) ELSE x.v
PyEq(a, b) ==
    IF a.t \in {"num", "bool"} /\ b.t \in {"num", "bool"}
    THEN NumOf(a) = NumOf(b)
    ELSE a = b

\* key in d, for a dict d
HasKey(d, k) == \E e \in DOMAIN d.v : PyEq(e, k)

\* d.get(k): the value under k, None when absent
DictGet(d, k) ==
    IF HasKey(d, k) THEN d.v[CHOOSE e \in DOMAIN d.v : PyEq(e, k)] ELSE JNull

\* An assignment that leaves a key already present alone.
DictSet_first_write_wins(d, k, val) ==
    IF \E e \in DOMAIN d.v : PyEq(e, k) THEN d
    ELSE JMap([e \in DOMAIN d.v \cup {k} |-> IF e = k THEN val ELSE d.v[e]])

\* d[k] = val: last write wins; an equal key already present is kept.
DictSet(d, k, val) ==
    IF HasKey(d, k)
    THEN JMap([e \in DOMAIN d.v |-> IF PyEq(e, k) THEN val ELSE d.v[e]])
    ELSE JMap([e \in DOMAIN d.v \cup {k} |-> IF e = k THEN val ELSE d.v[e]])

\* str(x) as "%s" and "{}" render it; lists render their elements' repr.
RECURSIVE PyRepr(_)
RECURSIVE PyReprSeq(_, _)
PyRepr(x) ==
    CASE x.t = "null" -> "None"
      [] x.t = "str"  -> "'" \o x.v \o "'"
      [] x.t = "num"  -> ToString(x.v)
      [] x.t = "bool" -> (IF x.v THEN "True" ELSE "False")
      [] x.t = "list" -> "[" \o PyReprSeq(x.v, 1) \o "]"
      [] OTHER        -> "{...}"
PyReprSeq(s, i) ==
    IF i > Len(s) THEN ""
    ELSE PyRepr(s[i]) \o (IF i < Len(s) THEN ", " ELSE "") \o PyReprSeq(s, i + 1)
PyStr(x) == IF x.t = "str" THEN x.v ELSE PyRepr(x)

\* Finite sequences over S of length at most n; maps from subsets of K into S.
SeqsUpTo(S, n) == UNION {[1..m -> S] : m \in 0..n}
MapsOver(K, S) == UNION {[D -> S] : D \in SUBSET K}

---------------------------------------------------------------------------
(* Collection normalizer *)

NameKeyed == {"clusters", "servers", "jmsServers", "destinations",
              "datasources", "deployments"}

\* A composite key getter that does not look at partitionName.
composite_key_getter_partition_only(item) ==
    LET name == DictGet(item, JStr("name"))
        partition == PyOr(DictGet(item, JStr("partition")), JStr("default"))
    IN  IF Truthy(name)
        THEN JStr(PyStr(partition) \o "::" \o PyStr(name))
        ELSE JNull

\* "%s::%s" % (partition or partitionName or "default", name), None without
\* a truthy name.
composite_key_getter(item) ==
    LET name == DictGet(item, JStr("name"))
        partition == PyOr(DictGet(item, JStr("partition")),
                          PyOr(DictGet(item, JStr("partitionName")), JStr("default")))
    IN  IF Truthy(name)
        THEN JStr(PyStr(partition) \o "::" \o PyStr(name))
        ELSE JNull

\* Key getters whose thread entry prefers the name to the server.
key_getter_name_first(current_key, item) ==
    CASE current_key = JStr("composites") -> composite_key_getter(item)
      [] current_key = JStr("threads") ->
            PyOr(DictGet(item, JStr("name")), DictGet(item, JStr("server")))
      [] OTHER -> DictGet(item, JStr("name"))

\* The key getter normalize_collections picks for current_key, applied to a
\* dict item. (Both variants call it on dict items only.)
key_getter(current_key, item) ==
    CASE current_key = JStr("composites") -> composite_key_getter(item)
      [] current_key = JStr("threads") ->
            PyOr(DictGet(item, JStr("server")), DictGet(item, JStr("name")))
      [] OTHER -> DictGet(item, JStr("name"))

\* A normalizer that counts the elements from 0.
synthetic_key_from_zero(current_key, index) ==
    JStr(PyStr(PyOr(current_key, JStr("item"))) \o "_" \o ToString(index - 1))

\* "%s_%d" % (current_key or "item", index)
synthetic_key(current_key, index) ==
    JStr(PyStr(PyOr(current_key, JStr("item"))) \o "_" \o ToString(index))

\* The current_key handed down when recursing into a dict element of a list:
\* the root variant passes none, the HC variant passes its own.
item_current_key(v, current_key) == IF v = "root" THEN JNull ELSE current_key

RECURSIVE normalize_collections(_, _, _)
RECURSIVE normalize_list(_, _, _, _, _)

\* The loop over a list: items[index..] are still to be stored in mapping.
normalize_list(v, items, current_key, index, mapping) ==
    IF index > Len(items) THEN mapping
    ELSE
        LET item == items[index]
            fallback == synthetic_key(current_key, index)
        IN  IF item.t = "map"
            THEN LET key == PyOr(key_getter(current_key, item), fallback)
                     child == normalize_collections(v, item, item_current_key(v, current_key))
                 IN  IF child = Raise \/ ~Hashable(key) THEN Raise
                     ELSE normalize_list(v, items, current_key, index + 1,
                                         DictSet(mapping, key, child))
            ELSE normalize_list(v, items, current_key, index + 1,
                                DictSet(mapping, fallback, item))

RECURSIVE normalize_collections_keeps_current_key(_, _, _)
\* An HC normalizer whose dict branch hands its own current_key down to the
\* children, where normalize_collections hands down each child's key.
normalize_collections_keeps_current_key(v, value, current_key) ==
    CASE value.t = "list" -> normalize_list(v, value.v, current_key, 1, EmptyMap)
      [] value.t = "map" ->
            LET children == [k \in DOMAIN value.v |->
                                normalize_collections_keeps_current_key(
                                    v, value.v[k], IF v = "HC" THEN current_key ELSE k)]
            IN  IF \E k \in DOMAIN value.v : children[k] = Raise
                THEN Raise
                ELSE JMap(children)
      [] OTHER -> value

\* normalize_collections(value, current_key) of variant v.
normalize_collections(v, value, current_key) ==
    CASE value.t = "list" -> normalize_list(v, value.v, current_key, 1, EmptyMap)
      [] value.t = "map" ->
            LET children == [k \in DOMAIN value.v |->
                                normalize_collections(v, value.v[k], k)]
            IN  IF \E k \in DOMAIN value.v : children[k] = Raise
                THEN Raise
                ELSE JMap(children)
      [] OTHER -> value


---------------------------------------------------------------------------
(* Section error tracker (HC variant) and size-based keys *)

\* _error_counters as the module defines it.
InitialErrorCounters ==
    [c \in {"clusters", "managed_servers", "jms_servers", "threads",
            "datasources", "deployments", "composites"} |-> 0]

\* A tracker that never reads the stored count.
counter_of_forgets(counters, check_type) == 0

\* _error_counters.get(check_type, 0)
counter_of(counters, check_type) ==
    IF check_type \in DOMAIN counters THEN counters[check_type] ELSE 0

\* A tracker that counts only the categories the module registers.
get_error_key_registered_only(counters, check_type) ==
    LET count == (IF check_type \in DOMAIN counters THEN counters[check_type] ELSE 0) + 1
    IN  [key |-> check_type \o "_error_" \o ToString(count),
         counters |-> [c \in DOMAIN counters |->
                          IF c = check_type THEN count ELSE counters[c]]]

\* _get_error_key(check_type): the key it returns and the counters it leaves.
get_error_key(counters, check_type) ==
    LET count == counter_of(counters, check_type) + 1
    IN  [key |-> check_type \o "_error_" \o ToString(count),
         counters |-> [c \in DOMAIN counters \cup {check_type} |->
                          IF c = check_type THEN count ELSE counters[c]]]

\* next_key(prefix, container): "<prefix>_<len(container) + 1>".
next_key(prefix, container) ==
    JStr(prefix \o "_" \o ToString(Cardinality(DOMAIN container.v) + 1))

---------------------------------------------------------------------------
(* Section fetchers *)

\* Top-level payload keys, in the order gather evaluates the fetchers.
Sections == <<"clusters", "servers", "jmsServers", "threads",
              "datasources", "deployments", "composites">>
SectionSet == {Sections[i] : i \in DOMAIN Sections}

\* Prefix of the size-based fallback key of a record without a name.
fallback_prefix(section) ==
    CASE section = "clusters"    -> "cluster"
      [] section = "servers"     -> "server"
      [] section = "jmsServers"  -> "jmsServer"
      [] section = "threads"     -> "threadPool"
      [] section = "datasources" -> "datasource"
      [] section = "deployments" -> "deployment"
      [] section = "composites"  -> "composite"

\* Root variant: prefix handed to next_key for the error record.
root_error_prefix(section) ==
    CASE section = "clusters"    -> "cluster_error"
      [] section = "servers"     -> "server_error"
      [] section = "jmsServers"  -> "jms_error"
      [] section = "threads"     -> "thread_error"
      [] section = "datasources" -> "datasource_error"
      [] section = "deployments" -> "deployment_error"
      [] section = "composites"  -> "composite_error"

\* HC variant: category handed to _get_error_key.
error_category(section) ==
    CASE section = "clusters"    -> "clusters"
      [] section = "servers"     -> "managed_servers"
      [] section = "jmsServers"  -> "jms_servers"
      [] section = "threads"     -> "threads"
      [] section = "datasources" -> "datasources"
      [] section = "deployments" -> "deployments"
      [] section = "composites"  -> "composites"

\* The record inserted when the fetcher's outer handler catches exc.
error_record(section, message) ==
    IF section = "threads"
    THEN JMap((JStr("server") :> JStr("ERROR")) @@ (JStr("state") :> JStr(message)))
    ELSE JMap((JStr("name") :> JStr("ERROR")) @@ (JStr("state") :> JStr(message)))

(* A backend object o is [name, fail]: name is what getName() returns (None *)
(* or a string); fail says which of its accessors raises:                   *)
(*   "none"     every accessor answers                                      *)
(*   "getName"  getName() raises                                            *)
(*   "attr"     a data accessor raises (getState(); for thread pools        *)
(*              getQueueLength())                                           *)
(*   "noPool"   getThreadPoolRuntime() returns None (threads only)          *)
(*   "notDict"  the composite hook yielded something that is no dict        *)
StateOf(o) == JStr("RUNNING")

\* The record a fetcher builds for object o, whose name it read as name,
\* with the data accessors answering (attrOk) or not.
section_record(v, section, o, name, attrOk) ==
    LET state == IF attrOk THEN StateOf(o) ELSE JNull
        count == IF attrOk THEN JNum(0) ELSE JNull
    IN  CASE section = "clusters" ->
                JMap((JStr("name") :> name) @@ (JStr("state") :> state)
                     @@ (JStr("servers") :> EmptyMap))
          [] section = "jmsServers" ->
                JMap((JStr("name") :> name) @@ (JStr("state") :> state)
                     @@ (JStr("destinations") :> EmptyMap))
          [] section = "threads" ->
                IF v = "HC" /\ o.fail = "noPool"
                THEN JMap((JStr("server") :> name))
                ELSE JMap((JStr("server") :> name) @@ (JStr("queueLength") :> count))
          [] section = "composites" ->
                IF name = JNull THEN EmptyMap ELSE JMap((JStr("name") :> name))
          [] OTHER ->
                JMap((JStr("name") :> name) @@ (JStr("state") :> state))

\* The key under which a fetcher stores the record of the index-th
\* enumerated object, given the records stored so far.
record_key(v, section, name, index, container) ==
    IF section = "composites"
    THEN IF Truthy(name)
         THEN JStr(PyStr(JStr("default")) \o "::" \o PyStr(name))
         ELSE IF v = "HC"
              THEN JStr("composite_" \o ToString(index))
              ELSE next_key("composite", container)
    ELSE PyOr(name, next_key(fallback_prefix(section), container))

\* What the loop body does with one backend object:
\*   "store"  a record is stored
\*   "skip"   nothing is stored and the loop goes on
\*   "raise"  the exception reaches the fetcher's outer handler
item_outcome(v, section, o) ==
    IF v = "root"
    THEN CASE o.fail \in {"getName", "attr", "notDict"} -> "raise"
           [] o.fail = "noPool" /\ section = "threads" -> "skip"
           [] OTHER -> "store"
    ELSE CASE o.fail = "notDict" -> "skip"
           [] o.fail = "attr" /\ section \in {"servers", "jmsServers",
                                              "datasources", "deployments"} -> "skip"
           [] OTHER -> "store"

\* The name the loop body holds for o (HC: None when getName() raised).
item_name(v, o) == IF o.fail = "getName" THEN JNull ELSE o.name

RECURSIVE fetch_loop(_, _, _, _, _)
\* The enumeration loop from the index-th object on: the container it leaves
\* and whether an exception reached the outer handler.
fetch_loop(v, section, objs, index, container) ==
    IF index > Len(objs) THEN [container |-> container, raised |-> FALSE]
    ELSE
        LET o == objs[index]
            what == item_outcome(v, section, o)
            name == item_name(v, o)
        IN  CASE what = "raise" -> [container |-> container, raised |-> TRUE]
              [] what = "skip" -> fetch_loop(v, section, objs, index + 1, container)
              [] OTHER ->
                    fetch_loop(v, section, objs, index + 1,
                        DictSet(container,
                                record_key(v, section, name, index, container),
                                section_record(v, section, o, name, o.fail # "attr")))

(* What the backend does during one fetcher call, b = [dr, top, objs, iter]: *)
(*   dr    domainRuntime(): "ok", "absent" (no such global), "raise"          *)
(*   top   the accessor that yields the collection (cmo.getServerRuntimes(), *)
(*         cmo.getJDBCServiceRuntime(), the soa_cluster_state hook, ...):    *)
(*         "ok", "none" (it returns None, or the hook is absent), "raise"    *)
(*   objs  the backend objects it enumerates                                 *)
(*   iter  "raise" when the enumeration raises after yielding objs           *)
\* Whether the call fails before the first object is enumerated.
fails_before_loop(v, section, b) ==
    IF v = "root"
    THEN (section # "composites" /\ b.dr = "raise") \/ b.top = "raise"
    ELSE section # "composites" /\ b.dr # "ok"

\* str(exc) of the exception the outer handler catches.
failure_message(v, section, b) ==
    IF v = "HC" /\ section # "composites" /\ b.dr # "ok"
    THEN "domainRuntime() not available"
    ELSE "backend failure"

\* fetch_<section>() of variant v against backend b: the map it returns and
\* the error counters it leaves.
fetch(v, section, b, counters) ==
    LET before == fails_before_loop(v, section, b)
        looped == IF before \/ b.top # "ok"
                  THEN [container |-> EmptyMap, raised |-> before]
                  ELSE fetch_loop(v, section, b.objs, 1, EmptyMap)
        raised == looped.raised \/ (~before /\ b.top = "ok" /\ b.iter = "raise")
        record == error_record(section, failure_message(v, section, b))
        tracked == get_error_key(counters, error_category(section))
    IN  IF ~raised THEN [result |-> looped.container, counters |-> counters]
        ELSE IF v = "root"
        THEN [result |-> DictSet(looped.container,
                                 next_key(root_error_prefix(section), looped.container),
                                 record),
              counters |-> counters]
        ELSE [result |-> DictSet(looped.container, JStr(tracked.key), record),
              counters |-> tracked.counters]

\* Most backend objects one fetcher call enumerates.
MaxObjs == 3

ObjNames == {JNull, JStr("a"), JStr("b")}
FailKinds(section) ==
    CASE section = "composites" -> {"none", "notDict"}
      [] section = "threads"    -> {"none", "getName", "attr", "noPool"}
      [] OTHER                  -> {"none", "getName", "attr"}
\* The name a backend object may carry that reads like the size-based key of
\* the second record of its section ("server_2").
ClashingName(section) == JStr(fallback_prefix(section) \o "_2")
\* getName() raising and a non-dict leave no name to read.
BackendObjects(section) ==
    {o \in [name : ObjNames, fail : FailKinds(section)] :
        o.fail \in {"getName", "notDict"} => o.name = JNull}
    \cup {[name |-> ClashingName(section), fail |-> "none"]}
\* Either the call fails before the loop, or it enumerates up to MaxObjs
\* objects, the enumeration itself ending well or raising.
Backends(section) ==
    [dr : {"absent", "raise"}, top : {"ok"}, objs : {<<>>}, iter : {"ok"}]
    \cup [dr : {"ok"}, top : {"none", "raise"}, objs : {<<>>}, iter : {"ok"}]
    \cup [dr : {"ok"}, top : {"ok"},
          objs : SeqsUpTo(BackendObjects(section), MaxObjs), iter : {"ok", "raise"}]

---------------------------------------------------------------------------
(* Fixture loading *)

\* The requested checks: "all", the seven named ones, an unknown name and
\* the empty string.
NamedChecks == {"cluster", "managed_servers", "jms", "threads", "datasource",
                "deployments", "composites"}
Checks == {"all"} \cup NamedChecks \cup {"bogus", ""}

\* key_map.get(check): the section key of a named check, None otherwise.
key_map(check) ==
    CASE check = "cluster"         -> JStr("clusters")
      [] check = "managed_servers" -> JStr("servers")
      [] check = "jms"             -> JStr("jmsServers")
      [] check = "datasource"      -> JStr("datasources")
      [] check = "deployments"     -> JStr("deployments")
      [] check = "composites"      -> JStr("composites")
      [] check = "threads"         -> JStr("threads")
      [] OTHER                     -> JNull

\* a in b, for strings
IsSubstring(a, b) ==
    \E i \in 1..(Len(b) - Len(a) + 1) : SubSeq(b, i, i + Len(a) - 1) = a

\* "k in x" followed by the use of x[k] the scripts make when it is true:
\* "yes", "no", or "raise" (TypeError).
contains(x, k) ==
    CASE x.t = "map" -> IF HasKey(x, k) THEN "yes" ELSE "no"
      [] x.t = "str" -> IF IsSubstring(k.v, x.v) THEN "raise" ELSE "no"
      [] OTHER       -> "raise"

\* A loader that returns the filtered map even when it is empty.
load_sample_payload_fails_closed(v, fx, check) ==
    CASE fx.kind \in {"unset", "missing"} -> JNull
      [] fx.kind = "unparsable" -> (IF v = "root" THEN Raise ELSE JNull)
      [] OTHER ->
        LET loaded == normalize_collections(v, fx.doc, JNull)
            target_key == key_map(check)
            found == IF Truthy(target_key) THEN contains(loaded, target_key) ELSE "no"
        IN  CASE loaded = Raise -> Raise
              [] check = "all" \/ check = "" -> loaded
              [] found = "raise" -> Raise
              [] found = "yes" -> JMap((target_key :> DictGet(loaded, target_key)))
              [] OTHER -> EmptyMap

(* What WLST_SAMPLE_OUTPUT points at, fx = [kind, doc]:                     *)
(*   "unset"       the variable is not set                                  *)
(*   "missing"     it names a path that does not exist                      *)
(*   "unparsable"  the file exists and does not hold JSON                   *)
(*   "json"        the file holds the JSON document doc                     *)
\* load_sample_payload(check) of variant v: a value, None or Raise.
load_sample_payload(v, fx, check) ==
    CASE fx.kind \in {"unset", "missing"} -> JNull
      [] fx.kind = "unparsable" -> (IF v = "root" THEN Raise ELSE JNull)
      [] OTHER ->
        LET loaded == normalize_collections(v, fx.doc, JNull)
            target_key == key_map(check)
            found == IF Truthy(target_key) THEN contains(loaded, target_key) ELSE "no"
        IN  CASE loaded = Raise -> Raise
              [] check = "all" \/ check = "" -> loaded
              [] found = "raise" -> Raise
              [] found = "yes" -> JMap((target_key :> DictGet(loaded, target_key)))
              [] OTHER -> loaded

---------------------------------------------------------------------------
(* gather and main *)

\* datetime.utcnow().isoformat() + "Z" at the time of the invocation.
Now == JStr("NOW")

ErrorPayload(message) == JMap((JStr("error") :> JStr(message)))

\* A gather that tests the sample for truth, so that an empty object is
\* taken for no sample.
serves_sample_if_truthy(v, s) == Truthy(s)

\* Whether gather answers from the sample instead of going to the backend.
serves_sample(v, s) == s # JNull

\* What gather returns when it answers from the sample s (Raise when the
\* statement "sample_payload['generatedAt'] = ..." or the normalizer raises).
gather_from_sample(v, s) ==
    IF v = "HC" \/ ~Truthy(s)
    THEN normalize_collections(v, s, JNull)
    ELSE IF s.t # "map" THEN Raise
    ELSE normalize_collections(v,
            DictSet(DictSet(s, JStr("generatedAt"), Now), JStr("source"), JStr("sample")),
            JNull)

\* not (username and password and admin_url)
credentials_missing(a) ==
    ~(Truthy(a.username) /\ Truthy(a.password) /\ Truthy(a.admin_url))

\* What gather returns when connect_if_available returned False.
unavailable_payload(v) ==
    IF v = "root"
    THEN normalize_collections(v,
            ErrorPayload("WLST runtime not available and no sample payload supplied"), JNull)
    ELSE ErrorPayload("WLST runtime not available or connect() failed and no sample payload supplied")

\* A gather that leaves the thread fetcher out of the full run.
dispatch_order_without_threads(check) ==
    IF check \in NamedChecks THEN <<key_map(check).v>>
    ELSE SubSeq(Sections, 1, 3) \o SubSeq(Sections, 5, 7)

\* A gather whose chain of single checks has no branch for "jms".
dispatch_order_without_jms_branch(check) ==
    IF check \in NamedChecks \ {"jms"} THEN <<key_map(check).v>> ELSE Sections

\* The fetchers gather runs for a check, in order.
dispatch_order(check) ==
    IF check \in NamedChecks THEN <<key_map(check).v>> ELSE Sections

\* main's tail: payload = gather(...) or {}; add generatedAt and check when
\* absent. The object written, or Raise when a statement raises.
finalize(v, returned, check) ==
    LET p == PyOr(returned, EmptyMap)
        hasAt == contains(p, JStr("generatedAt"))
        hasCheck == contains(p, JStr("check"))
    IN  CASE p.t = "map" ->
                LET q == IF hasAt = "yes" THEN p ELSE DictSet(p, JStr("generatedAt"), Now)
                IN  IF hasCheck = "yes" THEN q ELSE DictSet(q, JStr("check"), JStr(check))
          [] p.t = "str" /\ v = "HC" /\ IsSubstring("generatedAt", p.v)
                         /\ IsSubstring("check", p.v) -> p
          [] OTHER -> Raise

\* The backends a fetcher may meet inside gather: a healthy subtree with one
\* object, and, for a flaky section, one whose enumeration raises after that
\* object and one whose only object cannot be read.
Healthy == [dr |-> "ok", top |-> "ok", iter |-> "ok",
            objs |-> <<[name |-> JStr("a"), fail |-> "none"]>>]
FailsMidway == [dr |-> "ok", top |-> "ok", iter |-> "raise",
                objs |-> <<[name |-> JStr("a"), fail |-> "none"]>>]
BadObject(section) ==
    [dr |-> "ok", top |-> "ok", iter |-> "ok",
     objs |-> <<[name |-> JNull,
                 fail |-> IF section = "composites" THEN "notDict" ELSE "getName"]>>]
GatherBackends(section) ==
    IF section \in flaky THEN {Healthy, FailsMidway, BadObject(section)} ELSE {Healthy}

\* The fetcher calls made so far in this gather invocation.
fetched == SelectSeq(calls, LAMBDA c : c # "connect")

\* The keys of the error records in a fetcher's result.
error_keys(result) ==
    {k \in DOMAIN result.v :
        JStr("ERROR") \in {DictGet(result.v[k], JStr("name")),
                           DictGet(result.v[k], JStr("server"))}}

\* An exception leaves gather: the root main has no handler, the HC main
\* turns it into an error payload.
GatherRaises ==
    IF variant = "root"
    THEN pc' = "crashed" /\ UNCHANGED payload
    ELSE /\ pc' = "returned"
         /\ payload' = ErrorPayload("Unhandled exception during WLST healthcheck")

\* gather: sample_payload = load_sample_payload(check)
GatherLoadSample ==
    /\ pc = "start"
    /\ LET s == load_sample_payload(variant, fixture, argv.check)
       IN  /\ sample' = s
           /\ IF s = Raise THEN GatherRaises
              ELSE pc' = "loaded" /\ UNCHANGED payload
    /\ UNCHANGED <<heapVars, repVars, wlstVars, variant, argv, fixture, stdout, calls, connected, domain, flaky,
                   invocation, errlog, error_counters, keyVars, fetchVars, normVars>>

\* gather: the sample is served; no backend call is made
GatherServeSample ==
    /\ pc = "loaded"
    /\ serves_sample(variant, sample)
    /\ LET r == gather_from_sample(variant, sample)
       IN  IF r = Raise THEN GatherRaises
           ELSE pc' = "returned" /\ payload' = r
    /\ UNCHANGED <<heapVars, repVars, wlstVars, variant, argv, fixture, sample, stdout, calls, connected, domain,
                   flaky, invocation, errlog, error_counters, keyVars, fetchVars, normVars>>

\* connect_if_available returns False without calling connect: a credential
\* is missing or WLST's connect is not among the globals
ConnectUnavailable ==
    /\ pc = "loaded"
    /\ ~serves_sample(variant, sample)
    /\ \E fn \in {"present", "absent"} :
          /\ credentials_missing(argv) \/ fn = "absent"
          /\ connected' = IF credentials_missing(argv) THEN "noCreds" ELSE "noFn"
    /\ payload' = unavailable_payload(variant)
    /\ pc' = "returned"
    /\ UNCHANGED <<heapVars, repVars, wlstVars, variant, argv, fixture, sample, stdout, calls, domain, flaky,
                   invocation, errlog, error_counters, keyVars, fetchVars, normVars>>

\* connect(username, password, admin_url) raises: the root variant prints an
\* error object and calls sys.exit(1), the HC variant returns False
ConnectFails ==
    /\ pc = "loaded"
    /\ ~serves_sample(variant, sample)
    /\ ~credentials_missing(argv)
    /\ calls' = Append(calls, "connect")
    /\ connected' = "failed"
    /\ IF variant = "root"
       THEN /\ stdout' = Append(stdout, ErrorPayload("Failed to connect via WLST"))
            /\ pc' = "exited"
            /\ UNCHANGED payload
       ELSE /\ payload' = unavailable_payload(variant)
            /\ pc' = "returned"
            /\ UNCHANGED stdout
    /\ UNCHANGED <<heapVars, repVars, wlstVars, variant, argv, fixture, sample, domain, flaky, invocation, errlog,
                   error_counters, keyVars, fetchVars, normVars>>

\* connect(username, password, admin_url) succeeds
ConnectOk ==
    /\ pc = "loaded"
    /\ ~serves_sample(variant, sample)
    /\ ~credentials_missing(argv)
    /\ calls' = Append(calls, "connect")
    /\ connected' = "ok"
    /\ pc' = IF variant = "root" THEN "dispatch" ELSE "domain"
    /\ UNCHANGED <<heapVars, repVars, wlstVars, variant, argv, fixture, sample, payload, stdout, domain, flaky,
                   invocation, errlog, error_counters, keyVars, fetchVars, normVars>>

\* HC gather: ensure_domain_runtime() answers True
DomainOk ==
    /\ pc = "domain"
    /\ domain' = "ok"
    /\ pc' = "dispatch"
    /\ UNCHANGED <<heapVars, repVars, wlstVars, variant, argv, fixture, sample, payload, stdout, calls, connected,
                   flaky, invocation, errlog, error_counters, keyVars, fetchVars, normVars>>

\* HC gather: domainRuntime is absent or raises; gather returns an error payload
DomainUnavailable ==
    /\ pc = "domain"
    /\ domain' = "unavailable"
    /\ payload' = ErrorPayload("domainRuntime() not available after connect()")
    /\ pc' = "returned"
    /\ UNCHANGED <<heapVars, repVars, wlstVars, variant, argv, fixture, sample, stdout, calls, connected, flaky,
                   invocation, errlog, error_counters, keyVars, fetchVars, normVars>>

\* gather: the next fetcher of the dict display runs against its backend
GatherFetch ==
    /\ pc = "dispatch"
    /\ Len(fetched) < Len(dispatch_order(argv.check))
    /\ LET section == dispatch_order(argv.check)[Len(fetched) + 1]
       IN  \E b \in GatherBackends(section) :
              LET r == fetch(variant, section, b, error_counters)
              IN  /\ payload' = DictSet(payload, JStr(section), r.result)
                  /\ error_counters' = r.counters
                  /\ calls' = Append(calls, section)
                  /\ errlog' = errlog \cup
                        {[invocation |-> invocation, section |-> section, key |-> k.v] :
                            k \in error_keys(r.result)}
    /\ UNCHANGED <<heapVars, repVars, wlstVars, variant, argv, fixture, pc, sample, stdout, connected, domain, flaky,
                   invocation, keyVars, fetchVars, normVars>>

\* gather: return normalize_collections({...})
GatherReturn ==
    /\ pc = "dispatch"
    /\ Len(fetched) = Len(dispatch_order(argv.check))
    /\ LET r == normalize_collections(variant, payload, JNull)
       IN  IF r = Raise THEN GatherRaises
           ELSE pc' = "returned" /\ payload' = r
    /\ UNCHANGED <<heapVars, repVars, wlstVars, variant, argv, fixture, sample, stdout, calls, connected, domain,
                   flaky, invocation, errlog, error_counters, keyVars, fetchVars, normVars>>

\* main: add the metadata and write the object to standard output
MainFinish ==
    /\ pc = "returned"
    /\ LET out == finalize(variant, payload, argv.check)
       IN  IF out = Raise
           THEN pc' = "crashed" /\ UNCHANGED <<payload, stdout>>
           ELSE /\ payload' = out
                /\ stdout' = Append(stdout, out)
                /\ pc' = "done"
    /\ UNCHANGED <<heapVars, repVars, wlstVars, variant, argv, fixture, sample, calls, connected, domain, flaky,
                   invocation, errlog, error_counters, keyVars, fetchVars, normVars>>

---------------------------------------------------------------------------
(* Inputs of one process: sys.argv and the fixture file *)

Named(n) == JMap((JStr("name") :> JStr(n)))

FixtureDocs ==
    { EmptyMap,
      \* sections given as lists of records
      JMap((JStr("clusters") :> JList(<<Named("c1")>>))
           @@ (JStr("servers") :> JList(<<Named("s1"), Named("s2")>>))),
      \* a recorded payload that carries its own metadata
      JMap((JStr("clusters") :> JMap((JStr("c1") :> Named("c1"))))
           @@ (JStr("generatedAt") :> JStr("T0"))
           @@ (JStr("check") :> JStr("recorded"))),
      JMap((JStr("generatedAt") :> JStr("T0"))),
      \* an object the normalizer cannot key: the record's name is a list
      JMap((JStr("clusters") :>
                JList(<<JMap((JStr("name") :> JList(<<JNum(1)>>)))>>))),
      \* JSON documents that are no object
      JList(<<Named("c1")>>), JNull, JNum(0), JNum(5), JStr("abc") }

Fixtures ==
    [kind : {"unset", "missing", "unparsable"}, doc : {JNull}]
    \cup [kind : {"json"}, doc : FixtureDocs]

Arguments ==
    [check : Checks,
     admin_url : {JNull, JStr("t3://admin:7001")},
     username : {JNull, JStr("weblogic")},
     password : {JNull, JStr(""), JStr("secret")}]

KeyIdle == klog = <<>>
FetchIdle == fsection = "none" /\ fbackend = JNull /\ fresult = JNull /\ fpc = "idle"
NormIdle == nvalue = JNull /\ nkey = JNull /\ nout = JNull /\ nout2 = JNull /\ npc = "idle"
WlstIdle == wconf = JNull /\ wproc = JNull /\ wdoc = JNull /\ wout = JNull /\ wpc = "idle"
HeapIdle ==
    heap = <<>> /\ hvalue = JNull /\ hkey = JNull /\ href = JNull /\ hout = JNull
        /\ hpc = "idle"
RepIdle ==
    rsection = "none" /\ ritems = JNull /\ rlisted = JNull /\ rmapped = JNull
        /\ rpc = "idle"
ProcIdle ==
    /\ argv = JNull /\ fixture = JNull /\ pc = "idle" /\ sample = JNull
    /\ payload = JNull /\ stdout = <<>> /\ calls = <<>> /\ connected = "untried"
    /\ domain = "untried" /\ flaky = {} /\ invocation = 0 /\ errlog = {}

\* A process started by wlst.sh: main runs once.
Init ==
    /\ variant \in Variants
    /\ argv \in Arguments
    /\ fixture \in Fixtures
    /\ pc = "start"
    /\ sample = JNull
    /\ payload = EmptyMap
    /\ stdout = <<>>
    /\ calls = <<>>
    /\ connected = "untried"
    /\ domain = "untried"
    /\ flaky = SectionSet
    /\ invocation = 1
    /\ errlog = {}
    /\ error_counters = InitialErrorCounters
    /\ KeyIdle /\ FetchIdle /\ NormIdle /\ WlstIdle /\ HeapIdle /\ RepIdle

Next ==
    \/ GatherLoadSample
    \/ GatherServeSample
    \/ ConnectUnavailable
    \/ ConnectFails
    \/ ConnectOk
    \/ DomainOk
    \/ DomainUnavailable
    \/ GatherFetch
    \/ GatherReturn
    \/ MainFinish

Spec == Init /\ [][Next]_vars

---------------------------------------------------------------------------
(* A process that imports the HC module and calls gather more than once *)

\* Most gather invocations one process makes.
MaxInvocations == 2

SessionInit ==
    /\ variant = "HC"
    /\ argv \in [check : Checks, admin_url : {JStr("t3://admin:7001")},
                 username : {JStr("weblogic")}, password : {JStr("secret")}]
    /\ fixture \in [kind : {"unset"}, doc : {JNull}]
                   \cup [kind : {"json"}, doc : {EmptyMap}]
    /\ pc = "start"
    /\ sample = JNull
    /\ payload = EmptyMap
    /\ stdout = <<>>
    /\ calls = <<>>
    /\ connected = "untried"
    /\ domain = "untried"
    /\ flaky \in {{sec} : sec \in SectionSet}
    /\ invocation = 1
    /\ errlog = {}
    /\ error_counters = InitialErrorCounters
    /\ KeyIdle /\ FetchIdle /\ NormIdle /\ WlstIdle /\ HeapIdle /\ RepIdle

\* The caller invokes gather again, in the same process
GatherAgain ==
    /\ pc = "returned"
    /\ invocation < MaxInvocations
    /\ invocation' = invocation + 1
    /\ \E c \in Checks : argv' = [argv EXCEPT !.check = c]
    /\ pc' = "start"
    /\ sample' = JNull
    /\ payload' = EmptyMap
    /\ calls' = <<>>
    /\ connected' = "untried"
    /\ domain' = "untried"
    /\ UNCHANGED <<heapVars, repVars, wlstVars, variant, fixture, stdout, flaky, errlog, error_counters,
                   keyVars, fetchVars, normVars>>

SessionNext ==
    \/ GatherLoadSample
    \/ GatherServeSample
    \/ ConnectUnavailable
    \/ ConnectFails
    \/ ConnectOk
    \/ DomainOk
    \/ DomainUnavailable
    \/ GatherFetch
    \/ GatherReturn
    \/ GatherAgain

SpecSession == SessionInit /\ [][SessionNext]_vars

---------------------------------------------------------------------------
(* The error tracker on its own *)

\* Most _get_error_key calls in one run.
MaxKeyCalls == 4

\* Registered categories, an unregistered one, and one that looks like a key.
KeyCategories == {"clusters", "threads", "custom", "clusters_error_1"}

KeysInit ==
    /\ variant = "HC"
    /\ error_counters = InitialErrorCounters
    /\ klog = <<>>
    /\ ProcIdle /\ FetchIdle /\ NormIdle /\ WlstIdle /\ HeapIdle /\ RepIdle

\* _get_error_key(check_type)
GetErrorKey(check_type) ==
    /\ Len(klog) < MaxKeyCalls
    /\ LET r == get_error_key(error_counters, check_type)
       IN  /\ klog' = Append(klog, [category |-> check_type, key |-> r.key])
           /\ error_counters' = r.counters
    /\ UNCHANGED <<heapVars, repVars, wlstVars, variant, procVars, fetchVars, normVars>>

KeysNext == \E c \in KeyCategories : GetErrorKey(c)

SpecKeys == KeysInit /\ [][KeysNext]_vars

---------------------------------------------------------------------------
(* One fetcher call on its own *)

FetchInit ==
    /\ variant \in Variants
    /\ fsection \in SectionSet
    /\ fbackend \in Backends(fsection)
    /\ fresult = JNull
    /\ fpc = "start"
    /\ error_counters = InitialErrorCounters
    /\ ProcIdle /\ KeyIdle /\ NormIdle /\ WlstIdle /\ HeapIdle /\ RepIdle

\* fetch_<fsection>()
FetchSection ==
    /\ fpc = "start"
    /\ LET r == fetch(variant, fsection, fbackend, error_counters)
       IN  fresult' = r.result /\ error_counters' = r.counters
    /\ fpc' = "done"
    /\ UNCHANGED <<heapVars, repVars, wlstVars, variant, fsection, fbackend, procVars, keyVars, normVars>>

FetchNext == FetchSection

SpecFetch == FetchInit /\ [][FetchNext]_vars

---------------------------------------------------------------------------
(* Inputs of the normalizer *)

\* Longest list among the normalizer's inputs.
MaxLen == 2

Leaves == {JNull, JStr("a"), JNum(1)}
FieldNames == {JStr("name"), JStr("threads")}
CurrentKeys == {JNull, JStr("servers"), JStr("threads"), JStr("composites")}

\* Values nested one and two levels deep: lists of leaves, maps of leaves,
\* and lists and maps of those.
Level1(n) == Leaves \cup {JList(s) : s \in SeqsUpTo(Leaves, n)}
                    \cup {JMap(f) : f \in MapsOver(FieldNames, Leaves)}
Level2(n) == Level1(n) \cup {JList(s) : s \in SeqsUpTo(Level1(n), n)}
                       \cup {JMap(f) : f \in MapsOver(FieldNames, Level1(n))}
NormInputs(n) == Level2(n)

NormInit ==
    /\ variant \in Variants
    /\ nvalue \in NormInputs(MaxLen)
    /\ nkey \in CurrentKeys
    /\ nout = JNull
    /\ nout2 = JNull
    /\ npc = "start"
    /\ error_counters = InitialErrorCounters
    /\ ProcIdle /\ KeyIdle /\ FetchIdle /\ WlstIdle /\ HeapIdle /\ RepIdle

\* normalize_collections(nvalue, nkey)
NormalizeOnce ==
    /\ npc = "start"
    /\ nout' = normalize_collections(variant, nvalue, nkey)
    /\ npc' = "once"
    /\ UNCHANGED <<heapVars, repVars, wlstVars, variant, nvalue, nkey, nout2, error_counters, procVars, keyVars, fetchVars>>

\* normalize_collections applied to its own result
NormalizeAgain ==
    /\ npc = "once"
    /\ nout # Raise
    /\ nout2' = normalize_collections(variant, nout, nkey)
    /\ npc' = "twice"
    /\ UNCHANGED <<heapVars, repVars, wlstVars, variant, nvalue, nkey, nout, error_counters, procVars, keyVars, fetchVars>>

NormNext == NormalizeOnce \/ NormalizeAgain

SpecNorm == NormInit /\ [][NormNext]_vars

---------------------------------------------------------------------------
(* Lists of records handed to the normalizer *)

\* Longest list of records.
MaxItems == 3

Rec(name) == JMap((JStr("name") :> name))
WithField(rec, field, val) == DictSet(rec, JStr(field), val)

\* Records with and without the fields the key getters read, the name being
\* a string, empty, a number, a boolean or a list; and an element that is no
\* record.
ListElements ==
    { EmptyMap,
      Rec(JStr("a")),
      WithField(Rec(JStr("a")), "server", JStr("s")),
      JMap((JStr("server") :> JStr("s"))),
      WithField(Rec(JStr("a")), "partition", JStr("p1")),
      WithField(WithField(Rec(JStr("a")), "partition", JStr("")), "partitionName", JStr("p2")),
      Rec(JStr("")),
      Rec(JNum(1)),
      Rec(JBool(TRUE)),
      Rec(JList(<<JNum(1)>>)),
      JNum(1) }

\* current_key: none, three registered keys and one that is not registered.
ListKeys == {JNull, JStr("servers"), JStr("threads"), JStr("composites"), JStr("custom")}

ListInit ==
    /\ variant \in Variants
    /\ nvalue \in {JList(items) : items \in SeqsUpTo(ListElements, MaxItems)}
    /\ nkey \in ListKeys
    /\ nout = JNull
    /\ nout2 = JNull
    /\ npc = "start"
    /\ error_counters = InitialErrorCounters
    /\ ProcIdle /\ KeyIdle /\ FetchIdle /\ WlstIdle /\ HeapIdle /\ RepIdle

\* normalize_collections applied to a list of records, and to its result.
SpecList == ListInit /\ [][NormNext]_vars

---------------------------------------------------------------------------
(* Records that hold lists of records *)

\* A record whose name reads like the synthetic key of the second element
\* under "servers"; records with a list of records under a registered key,
\* with and without a name of their own; a list among the elements; a record
\* with a list that holds a list.
NestedElements ==
    { EmptyMap,
      Rec(JStr("servers_2")),
      WithField(Rec(JStr("a")), "threads",
                JList(<<WithField(Rec(JStr("a")), "server", JStr("s"))>>)),
      JMap((JStr("composites") :> JList(<<Rec(JStr("a"))>>))),
      JList(<<Rec(JStr("a"))>>),
      WithField(Rec(JStr("b")), "servers", JList(<<JList(<<JNum(1)>>), EmptyMap>>)) }

\* The values normalized: the elements themselves and lists of them.
NestedInputs ==
    NestedElements \cup {JList(items) : items \in SeqsUpTo(NestedElements, MaxItems)}

NestedInit ==
    /\ variant \in Variants
    /\ nvalue \in NestedInputs
    /\ nkey \in ListKeys
    /\ nout = JNull
    /\ nout2 = JNull
    /\ npc = "start"
    /\ error_counters = InitialErrorCounters
    /\ ProcIdle /\ KeyIdle /\ FetchIdle /\ WlstIdle /\ HeapIdle /\ RepIdle

\* normalize_collections applied to nested collections, and to its result.
SpecNested == NestedInit /\ [][NormNext]_vars

---------------------------------------------------------------------------
(* Text and JSON decoding, as run_wlst sees them *)

(* Text is a sequence of lexemes:                                           *)
(*   "{" "}" "[" "]" ","   the JSON punctuation                             *)
(*   "k:"                  an object key with its colon, "k":               *)
(*   "1"                   the number 1                                     *)
(*   "n"                   a word of a log or banner line                   *)
(*   " " "\n"              a blank and a line break                         *)
IsSpace(c) == c \in {" ", "\n"}

RECURSIVE lstrip(_)
lstrip(text) ==
    IF text # <<>> /\ IsSpace(Head(text)) THEN lstrip(Tail(text)) ELSE text

RECURSIVE rstrip(_)
rstrip(text) ==
    IF text # <<>> /\ IsSpace(text[Len(text)])
    THEN rstrip(SubSeq(text, 1, Len(text) - 1))
    ELSE text

\* text.strip()
strip(text) == rstrip(lstrip(text))

RECURSIVE split_from(_, _, _)
\* The lines of text[i..], line holding the lexemes read since the last break.
split_from(text, i, line) ==
    IF i > Len(text) THEN (IF line = <<>> THEN <<>> ELSE <<line>>)
    ELSE IF text[i] = "\n" THEN <<line>> \o split_from(text, i + 1, <<>>)
    ELSE split_from(text, i + 1, Append(line, text[i]))

\* text.splitlines()
splitlines(text) == split_from(text, 1, <<>>)

\* candidate.startswith('{') or candidate.startswith('[')
starts_with_bracket(text) == text # <<>> /\ Head(text) \in {"{", "["}

RECURSIVE skip_space(_, _)
skip_space(text, i) ==
    IF i <= Len(text) /\ IsSpace(text[i]) THEN skip_space(text, i + 1) ELSE i

\* The decoder's answer when the text is no JSON (json.JSONDecodeError).
DecodeError == [ok |-> FALSE, v |-> JNull, next |-> 0]

RECURSIVE parse_value(_, _)
RECURSIVE parse_elements(_, _, _)
RECURSIVE parse_members(_, _, _)

\* One JSON value starting at or after text[i]: [ok, v, next], next being
\* the index behind the value.
parse_value(text, i) ==
    LET j == skip_space(text, i)
    IN  IF j > Len(text) THEN DecodeError
        ELSE CASE text[j] = "1" -> [ok |-> TRUE, v |-> JNum(1), next |-> j + 1]
               [] text[j] = "[" ->
                    LET k == skip_space(text, j + 1)
                    IN  IF k <= Len(text) /\ text[k] = "]"
                        THEN [ok |-> TRUE, v |-> JList(<<>>), next |-> k + 1]
                        ELSE parse_elements(text, k, <<>>)
               [] text[j] = "{" ->
                    LET k == skip_space(text, j + 1)
                    IN  IF k <= Len(text) /\ text[k] = "}"
                        THEN [ok |-> TRUE, v |-> EmptyMap, next |-> k + 1]
                        ELSE parse_members(text, k, EmptyMap)
               [] OTHER -> DecodeError

\* The elements of an array from text[i] on, after those in acc.
parse_elements(text, i, acc) ==
    LET e == parse_value(text, i)
        j == skip_space(text, e.next)
    IN  IF ~e.ok \/ j > Len(text) THEN DecodeError
        ELSE CASE text[j] = "]" ->
                    [ok |-> TRUE, v |-> JList(Append(acc, e.v)), next |-> j + 1]
               [] text[j] = "," -> parse_elements(text, j + 1, Append(acc, e.v))
               [] OTHER -> DecodeError

\* The members of an object from text[i] on, after those in acc; a repeated
\* key keeps its last value.
parse_members(text, i, acc) ==
    LET j == skip_space(text, i)
    IN  IF j > Len(text) \/ text[j] # "k:" THEN DecodeError
        ELSE LET e == parse_value(text, j + 1)
                 m == skip_space(text, e.next)
                 obj == DictSet(acc, JStr("k"), e.v)
             IN  IF ~e.ok \/ m > Len(text) THEN DecodeError
                 ELSE CASE text[m] = "}" -> [ok |-> TRUE, v |-> obj, next |-> m + 1]
                        [] text[m] = "," -> parse_members(text, m + 1, obj)
                        [] OTHER -> DecodeError

\* json.loads(text): [ok, v]; ok is FALSE when it raises JSONDecodeError.
json_loads(text) ==
    LET r == parse_value(text, 1)
    IN  IF r.ok /\ skip_space(text, r.next) > Len(text)
        THEN [ok |-> TRUE, v |-> r.v]
        ELSE [ok |-> FALSE, v |-> JNull]

---------------------------------------------------------------------------
(* run_wlst of the command-line wrappers *)

RECURSIVE scan_lines_first_to_last(_, _)
\* A scan that examines the lines from the first to the last.
scan_lines_first_to_last(lines, i) ==
    IF i = 0 THEN [ok |-> FALSE, v |-> JNull]
    ELSE LET candidate == strip(lines[Len(lines) - i + 1])
             decoded == json_loads(candidate)
         IN  IF starts_with_bracket(candidate) /\ decoded.ok
             THEN [ok |-> TRUE, v |-> decoded.v]
             ELSE scan_lines_first_to_last(lines, i - 1)

RECURSIVE scan_lines(_, _)
\* The reverse scan over the lines, lines[i] being the next to examine: the
\* value of the first line that starts with a bracket and decodes.
scan_lines(lines, i) ==
    IF i = 0 THEN [ok |-> FALSE, v |-> JNull]
    ELSE LET candidate == strip(lines[i])
             decoded == json_loads(candidate)
         IN  IF starts_with_bracket(candidate) /\ decoded.ok
             THEN [ok |-> TRUE, v |-> decoded.v]
             ELSE scan_lines(lines, i - 1)

\* From "payload = result.stdout.strip() or result.stderr.strip()" on: what
\* run_wlst returns (None is JNull) and what it prints.
decode_output(proc) ==
    LET trimmed == IF strip(proc.stdout) # <<>> THEN strip(proc.stdout)
                   ELSE strip(proc.stderr)
        lines == splitlines(trimmed)
        scanned == scan_lines(lines, Len(lines))
        whole == json_loads(trimmed)
    IN  CASE trimmed = <<>> -> [returned |-> JNull, messages |-> <<"no output">>]
          [] scanned.ok     -> [returned |-> scanned.v, messages |-> <<>>]
          [] whole.ok       -> [returned |-> whole.v, messages |-> <<>>]
          [] OTHER          -> [returned |-> JNull, messages |-> <<"unable to decode">>]

\* "not args.wlst_script or not <executable>"
unconfigured(conf) == ~(conf.wlst_script /\ conf.wlst_exec)

\* A wrapper that parses the output of a failed process whatever
\* continue_on_error says.
parses_partial_output_unasked(v, conf, proc) ==
    proc.stdout # <<>> \/ proc.stderr # <<>>

\* Whether a non-zero exit still leads to parsing (HC variant only).
parses_partial_output(v, conf, proc) ==
    v = "HC" /\ conf.continue_on_error /\ (proc.stdout # <<>> \/ proc.stderr # <<>>)

\* run_wlst(check, args) of variant v: [returned, messages, invoked], invoked
\* telling whether subprocess.run was called.
run_wlst(v, conf, proc) ==
    CASE unconfigured(conf) ->
            [returned |-> JNull, messages |-> <<"placeholder">>, invoked |-> FALSE]
      [] proc.exit = "not found" ->
            [returned |-> JNull, messages |-> <<"not found">>, invoked |-> TRUE]
      [] proc.exit = "nonzero" /\ ~parses_partial_output(v, conf, proc) ->
            [returned |-> JNull, messages |-> <<"returned nonzero">>, invoked |-> TRUE]
      [] OTHER ->
            LET d == decode_output(proc)
                before == IF proc.exit = "nonzero"
                          THEN <<"returned nonzero", "parsing partial output">>
                          ELSE <<>>
            IN  [returned |-> d.returned, messages |-> before \o d.messages,
                 invoked |-> TRUE]

---------------------------------------------------------------------------
(* Outputs of the external process *)

RECURSIVE dumps(_)
RECURSIVE dumps_items(_, _)
\* json.dumps(x): one line, ", " between items and ": " after a key.
dumps(x) ==
    CASE x.t = "list" -> <<"[">> \o dumps_items(x.v, 1) \o <<"]">>
      [] x.t = "map"  ->
            IF DOMAIN x.v = {} THEN <<"{", "}">>
            ELSE <<"{", "k:", " ">> \o dumps(x.v[JStr("k")]) \o <<"}">>
      [] OTHER -> <<"1">>
dumps_items(items, i) ==
    IF i > Len(items) THEN <<>>
    ELSE dumps(items[i]) \o (IF i < Len(items) THEN <<",", " ">> ELSE <<>>)
             \o dumps_items(items, i + 1)

indent(depth) == [i \in 1..depth |-> " "]

RECURSIVE pretty(_, _)
RECURSIVE pretty_items(_, _, _)
\* json.dumps(x, indent=...): one item per line, indented by depth.
pretty(x, depth) ==
    CASE x.t = "list" ->
            IF x.v = <<>> THEN <<"[", "]">>
            ELSE <<"[", "\n">> \o pretty_items(x.v, 1, depth + 1)
                     \o <<"\n">> \o indent(depth) \o <<"]">>
      [] x.t = "map" ->
            IF DOMAIN x.v = {} THEN <<"{", "}">>
            ELSE <<"{", "\n">> \o indent(depth + 1) \o <<"k:", " ">>
                     \o pretty(x.v[JStr("k")], depth + 1)
                     \o <<"\n">> \o indent(depth) \o <<"}">>
      [] OTHER -> <<"1">>
pretty_items(items, i, depth) ==
    IF i > Len(items) THEN <<>>
    ELSE indent(depth) \o pretty(items[i], depth)
             \o (IF i < Len(items) THEN <<",", "\n">> ELSE <<>>)
             \o pretty_items(items, i + 1, depth)

\* JSON documents a script may print.
WlstDocs ==
    { EmptyMap,
      JMap((JStr("k") :> JNum(1))),
      JMap((JStr("k") :> JList(<<JNum(1), JNum(1)>>))),
      JList(<<JNum(1)>>),
      JList(<<JList(<<>>)>>),
      JList(<<JMap((JStr("k") :> JNum(1)))>>) }

\* What surrounds the document: nothing, words on the same line, banner
\* lines before it, blank lines or a log line after it.
NoiseBefore == {<<>>, <<"n", " ">>, <<"n", "\n">>, <<"n", " ", "n", "\n", "n", "\n">>}
NoiseAfter == {<<>>, <<" ", "n">>, <<"\n", "\n">>, <<"\n", "n">>}

\* Outputs that embed one JSON document, with the document they embed.
EmbeddingOutputs ==
    UNION {{[text |-> before \o body \o after, doc |-> d] :
                before \in NoiseBefore, after \in NoiseAfter,
                body \in {dumps(d), pretty(d, 0)}} : d \in WlstDocs}

\* Longest output among those enumerated lexeme by lexeme.
MaxText == 3

Lexemes == {"{", "}", "[", "]", "1", "n", "\n"}

\* Every output of at most MaxText lexemes; such an output is not tracked as
\* embedding a document.
ShortOutputs == {[text |-> t, doc |-> Raise] : t \in SeqsUpTo(Lexemes, MaxText)}

\* Outputs of several lines of which more than one starts with a bracket.
ScanOutputs ==
    {[text |-> t, doc |-> Raise] :
        t \in { <<"[", "]", "\n", "[">>,
                <<"{", "}", "\n", "[", "1", "]">>,
                <<"[", "1", "]", "\n", "n", "\n", "{">> }}

WlstOutputs == EmbeddingOutputs \cup ShortOutputs \cup ScanOutputs

\* What the standard error stream holds.
WlstErrors == {<<>>, <<"n">>, <<"[", "1", "]">>}

\* The arguments: whether the executable and the script are configured, and
\* continue_on_wlst_error, which only the HC wrapper has.
WlstConfigs(v) ==
    [wlst_exec : BOOLEAN, wlst_script : BOOLEAN,
     continue_on_error : IF v = "HC" THEN BOOLEAN ELSE {FALSE}]

NoOutput == [exit |-> "zero", stdout |-> <<>>, stderr |-> <<>>]

\* One call of run_wlst: unconfigured; or configured with an executable that
\* is not found; or with a process that exits zero or non-zero after writing
\* to its two streams.
WlstInit ==
    /\ variant \in Variants
    /\ wconf \in WlstConfigs(variant)
    /\ \/ /\ unconfigured(wconf)
          /\ wproc = NoOutput /\ wdoc = Raise
       \/ /\ ~unconfigured(wconf)
          /\ wproc = [NoOutput EXCEPT !.exit = "not found"] /\ wdoc = Raise
       \/ /\ ~unconfigured(wconf)
          /\ \E o \in WlstOutputs, e \in WlstErrors, x \in {"zero", "nonzero"} :
                /\ wproc = [exit |-> x, stdout |-> o.text, stderr |-> e]
                /\ wdoc = o.doc
    /\ wout = JNull
    /\ wpc = "start"
    /\ error_counters = InitialErrorCounters
    /\ ProcIdle /\ KeyIdle /\ FetchIdle /\ NormIdle /\ HeapIdle /\ RepIdle

\* data = run_wlst(check, args)
RunWlst ==
    /\ wpc = "start"
    /\ wout' = run_wlst(variant, wconf, wproc)
    /\ wpc' = "done"
    /\ UNCHANGED <<heapVars, repVars, variant, wconf, wproc, wdoc, error_counters, procVars, keyVars,
                   fetchVars, normVars>>

WlstNext == RunWlst

SpecWlst == WlstInit /\ [][WlstNext]_vars

---------------------------------------------------------------------------
(* The normalizer on an object store *)

(* Lists and dicts are objects with an identity: heap[a] is the object at  *)
(* address a, [t |-> "list", v |-> <<...>>] or [t |-> "map", v |-> f], and  *)
(* what it holds are None, strings, numbers, booleans and references       *)
(* [t |-> "ref", v |-> a] to other objects. An assignment d[k] = x changes  *)
(* the object d in place.                                                  *)
Ref(a) == [t |-> "ref", v |-> a]

RECURSIVE load(_, _)
RECURSIVE load_items(_, _, _, _)
RECURSIVE load_fields(_, _, _, _)
\* json.load building the value x on top of the store h: the store it
\* leaves and the value or reference that stands for x.
load(h, x) ==
    CASE x.t = "list" ->
            LET r == load_items(h, x.v, 1, <<>>)
            IN  [heap |-> Append(r.heap, [t |-> "list", v |-> r.vals]),
                 val |-> Ref(Len(r.heap) + 1)]
      [] x.t = "map" ->
            LET r == load_fields(h, x.v, DOMAIN x.v, <<>>)
            IN  [heap |-> Append(r.heap, [t |-> "map", v |-> r.vals]),
                 val |-> Ref(Len(r.heap) + 1)]
      [] OTHER -> [heap |-> h, val |-> x]
load_items(h, items, i, acc) ==
    IF i > Len(items) THEN [heap |-> h, vals |-> acc]
    ELSE LET r == load(h, items[i])
         IN  load_items(r.heap, items, i + 1, Append(acc, r.val))
load_fields(h, f, keys, acc) ==
    IF keys = {} THEN [heap |-> h, vals |-> acc]
    ELSE LET k == CHOOSE e \in keys : TRUE
             r == load(h, f[k])
         IN  load_fields(r.heap, f, keys \ {k}, acc @@ (k :> r.val))

RECURSIVE read(_, _)
\* The JSON value that val stands for in the store h.
read(h, val) ==
    IF val.t # "ref" THEN val
    ELSE LET o == h[val.v]
         IN  IF o.t = "list"
             THEN JList([i \in 1..Len(o.v) |-> read(h, o.v[i])])
             ELSE JMap([k \in DOMAIN o.v |-> read(h, o.v[k])])

\* A normalizer that empties the dict or list it was given and fills that.
new_mapping_reuses_input(h, value) ==
    [heap |-> [h EXCEPT ![value.v] = EmptyMap], addr |-> value.v]

\* "mapping = {}" (the dict comprehension of the root variant alike): a new
\* dict object; value is the argument of the call.
new_mapping(h, value) ==
    [heap |-> Append(h, EmptyMap), addr |-> Len(h) + 1]

\* "mapping[key] = x" on the dict at address m.
store(h, m, key, x) == [h EXCEPT ![m] = DictSet(h[m], key, x)]

RECURSIVE heap_normalize(_, _, _, _)
RECURSIVE heap_normalize_list(_, _, _, _, _, _)
RECURSIVE heap_normalize_fields(_, _, _, _, _)

\* The loop over a list: items[index..] are still to be stored in the dict
\* at m. An element that is no dict is stored as it is, the same object.
heap_normalize_list(v, h, items, current_key, index, m) ==
    IF index > Len(items) THEN [heap |-> h, val |-> Ref(m)]
    ELSE
        LET item == items[index]
            fallback == synthetic_key(current_key, index)
        IN  IF item.t = "ref" /\ h[item.v].t = "map"
            THEN LET key == PyOr(key_getter(current_key, read(h, item)), fallback)
                     child == heap_normalize(v, h, item, item_current_key(v, current_key))
                 IN  IF child.val = Raise \/ ~Hashable(key)
                     THEN [heap |-> child.heap, val |-> Raise]
                     ELSE heap_normalize_list(v, store(child.heap, m, key, child.val),
                                              items, current_key, index + 1, m)
            ELSE heap_normalize_list(v, store(h, m, fallback, item),
                                     items, current_key, index + 1, m)

\* The loop over the items of a dict f: keys are still to be stored in the
\* dict at m.
heap_normalize_fields(v, h, f, keys, m) ==
    IF keys = {} THEN [heap |-> h, val |-> Ref(m)]
    ELSE LET k == CHOOSE e \in keys : TRUE
             child == heap_normalize(v, h, f[k], k)
         IN  IF child.val = Raise THEN [heap |-> child.heap, val |-> Raise]
             ELSE heap_normalize_fields(v, store(child.heap, m, k, child.val),
                                        f, keys \ {k}, m)

\* normalize_collections(value, current_key) of variant v on the store h:
\* the store it leaves and what it returns.
heap_normalize(v, h, value, current_key) ==
    IF value.t # "ref" THEN [heap |-> h, val |-> value]
    ELSE LET o == h[value.v]
             mapping == new_mapping(h, value)
         IN  IF o.t = "list"
             THEN heap_normalize_list(v, mapping.heap, o.v, current_key, 1, mapping.addr)
             ELSE heap_normalize_fields(v, mapping.heap, o.v, DOMAIN o.v, mapping.addr)

HeapInit ==
    /\ variant \in Variants
    /\ hvalue \in NestedInputs
    /\ hkey \in ListKeys
    /\ heap = load(<<>>, hvalue).heap
    /\ href = load(<<>>, hvalue).val
    /\ hout = JNull
    /\ hpc = "start"
    /\ error_counters = InitialErrorCounters
    /\ ProcIdle /\ KeyIdle /\ FetchIdle /\ NormIdle /\ WlstIdle /\ RepIdle

\* normalize_collections(href, hkey)
NormalizeOnHeap ==
    /\ hpc = "start"
    /\ LET r == heap_normalize(variant, heap, href, hkey)
       IN  heap' = r.heap /\ hout' = r.val
    /\ hpc' = "done"
    /\ UNCHANGED <<variant, error_counters, hvalue, hkey, href, procVars, keyVars,
                   fetchVars, normVars, wlstVars, repVars>>

HeapNext == NormalizeOnHeap

SpecHeap == HeapInit /\ [][HeapNext]_vars

---------------------------------------------------------------------------
(* Reporting functions of the command-line wrappers *)

\* data.get('<section>') or data.get('items', <empty>): the collection a
\* reporting function iterates; the default is [] in the root wrapper and {}
\* in the HC wrapper.
section_value(v, section, data) ==
    LET items == IF HasKey(data, JStr("items")) THEN DictGet(data, JStr("items"))
                 ELSE IF v = "root" THEN JList(<<>>) ELSE EmptyMap
        pools == IF section = "threads" THEN DictGet(data, JStr("threadPools"))
                 ELSE JNull
    IN  PyOr(DictGet(data, JStr(section)), PyOr(pools, items))

\* What a reporting function reported, or a generator yielded: a set of
\* pairs.
Pairs(S) == [t |-> "pairs", v |-> S]

\* iter_named_items(value, default_key) of the HC wrapper: the (name,
\* payload) pairs it yields, Raise when value cannot be iterated.
iter_named_items(value, default_key) ==
    CASE value.t = "map" ->
            Pairs({[name |-> k, payload |-> value.v[k]] : k \in DOMAIN value.v})
      [] ~Truthy(value) -> Pairs({})
      [] value.t = "list" ->
            Pairs({[name |-> IF value.v[i].t = "map"
                             THEN DictGet(value.v[i], JStr(default_key)) ELSE JNull,
                    payload |-> value.v[i]] : i \in DOMAIN value.v})
      [] OTHER -> Raise

\* The key iter_named_items reads the name from.
default_key(section) == IF section = "threads" THEN "server" ELSE "name"

\* The field of a record that holds its members, which the reporting
\* function iterates in turn: the servers of a cluster, the destinations of
\* a JMS server.
members_field(section) ==
    CASE section = "clusters"   -> "servers"
      [] section = "jmsServers" -> "destinations"
      [] OTHER                  -> "none"

\* Root wrapper, "for x in collection: x.get(...)": whether it raises.
\* Iterating a dict yields its keys, which have no get.
root_loop_raises(collection) ==
    CASE collection.t = "list" -> \E i \in DOMAIN collection.v : collection.v[i].t # "map"
      [] collection.t = "map"  -> DOMAIN collection.v # {}
      [] OTHER                 -> Truthy(collection)

\* Root wrapper: whether reading the members of record raises.
root_members_raise(section, record) ==
    /\ members_field(section) # "none"
    /\ HasKey(record, JStr(members_field(section)))
    /\ root_loop_raises(DictGet(record, JStr(members_field(section))))

\* HC wrapper: whether reading the members of record raises.
hc_members_raise(section, record) ==
    /\ members_field(section) # "none"
    /\ HasKey(record, JStr(members_field(section)))
    /\ LET pairs == iter_named_items(DictGet(record, JStr(members_field(section))), "name")
       IN  pairs = Raise \/ \E p \in pairs.v : p.payload.t # "map"

\* The name a reporting function prints for a record: the root wrapper reads
\* it from the record, the HC wrapper takes the one iter_named_items yields.
reported_name(v, section, name, record) ==
    LET own == DictGet(record, JStr("name"))
        server == DictGet(record, JStr("server"))
    IN  CASE section = "threads" ->
                IF v = "root" THEN PyOr(PyOr(server, own), JStr("unknown"))
                ELSE PyOr(PyOr(PyOr(name, server), own), JStr("unknown"))
          [] section = "composites" ->
                IF v = "root" THEN own ELSE PyOr(own, name)
          [] OTHER ->
                IF v = "root" THEN own ELSE name

\* check_<section>(args) of wrapper v once run_wlst returned data: the set of
\* [name, record] pairs it reports, or Raise when an exception leaves it.
report(v, section, data) ==
    IF ~Truthy(data) THEN Pairs({})
    ELSE LET value == section_value(v, section, data)
         IN  IF v = "root"
             THEN IF root_loop_raises(value) THEN Raise
                  ELSE IF value.t # "list" THEN Pairs({})
                  ELSE IF \E i \in DOMAIN value.v : root_members_raise(section, value.v[i])
                  THEN Raise
                  ELSE Pairs({[name |-> reported_name(v, section, JNull, value.v[i]),
                               record |-> value.v[i]] : i \in DOMAIN value.v})
             ELSE LET pairs == iter_named_items(value, default_key(section))
                  IN  IF pairs = Raise THEN Raise
                      ELSE IF \E p \in pairs.v : p.payload.t # "map" THEN Raise
                      ELSE IF \E p \in pairs.v : hc_members_raise(section, p.payload)
                      THEN Raise
                      ELSE Pairs({[name |-> reported_name(v, section, p.name, p.payload),
                                   record |-> p.payload] : p \in pairs.v})

\* The records of a section: with a name and a state, with a name only, with
\* a server, with a partition, with members, and without any field.
ReportRecords ==
    { WithField(Rec(JStr("a")), "state", JStr("RUNNING")),
      Rec(JStr("b")),
      WithField(Rec(JStr("a")), "server", JStr("s")),
      WithField(Rec(JStr("a")), "partition", JStr("p1")),
      WithField(Rec(JStr("c")), "servers", JList(<<Rec(JStr("b"))>>)),
      EmptyMap }

\* The payload that holds ritems as a list, as a script would print it
\* without normalizing, and the payload gather emits for it.
ListPayload == JMap((JStr(rsection) :> ritems))
gather_payload(v, data) == normalize_collections(v, data, JNull)

ReportInit ==
    /\ variant \in Variants
    /\ rsection \in SectionSet
    /\ ritems \in {JList(items) : items \in SeqsUpTo(ReportRecords, MaxItems)}
    /\ rlisted = JNull
    /\ rmapped = JNull
    /\ rpc = "start"
    /\ error_counters = InitialErrorCounters
    /\ ProcIdle /\ KeyIdle /\ FetchIdle /\ NormIdle /\ WlstIdle /\ HeapIdle

\* check_<rsection>(args), run_wlst returning the section as a list
ReportList ==
    /\ rpc = "start"
    /\ rlisted' = report(variant, rsection, ListPayload)
    /\ rpc' = "listed"
    /\ UNCHANGED <<variant, error_counters, rsection, ritems, rmapped, procVars,
                   keyVars, fetchVars, normVars, wlstVars, heapVars>>

\* check_<rsection>(args), run_wlst returning what gather emits
ReportMap ==
    /\ rpc = "listed"
    /\ rmapped' = report(variant, rsection, gather_payload(variant, ListPayload))
    /\ rpc' = "done"
    /\ UNCHANGED <<variant, error_counters, rsection, ritems, rlisted, procVars,
                   keyVars, fetchVars, normVars, wlstVars, heapVars>>

ReportNext == ReportList \/ ReportMap

SpecReport == ReportInit /\ [][ReportNext]_vars

---------------------------------------------------------------------------
(* Claims *)

FixtureIsObject == fixture.kind = "json" /\ fixture.doc.t = "map"
Terminated == pc \in {"done", "crashed", "exited"}
HasField(x, name) == x.t = "map" /\ HasKey(x, JStr(name))
HasSectionKey(x) == \E sec \in SectionSet : HasField(x, sec)

\* C1: whenever the fixture file exists and holds a JSON object (the empty
\* object included), connect is never called and no fetcher is invoked,
\* whatever the requested check.
C1_FixturePrecedence == FixtureIsObject => calls = <<>> /\ connected = "untried"

\* An invocation with full credentials that served the empty object.
C1_Witness ==
    /\ pc = "done"
    /\ fixture.kind = "json" /\ fixture.doc = EmptyMap
    /\ ~credentials_missing(argv)
    /\ Len(stdout) = 1

\* C2: with a credential absent or empty, or connect failing, the invocation
\* neither raises nor exits early: gather returns a payload with an error
\* field and no section key, and no fetcher is invoked.
C2_ConnectionDegrades ==
    connected \in {"noCreds", "failed"} =>
        /\ pc \in {"returned", "done"}
        /\ HasField(payload, "error")
        /\ ~HasSectionKey(payload)
        /\ fetched = <<>>

\* C4 as stated: for check "all" or an unknown check, once connect has
\* succeeded gather invokes the seven fetchers once each in the fixed order
\* and returns all seven section keys, whichever fetchers fail.
C4_AllFetchersAfterConnect ==
    (connected = "ok" /\ argv.check \notin NamedChecks /\ pc \in {"returned", "done"}) =>
        /\ fetched = Sections
        /\ \A sec \in SectionSet : HasField(payload, sec)

IsPrefix(a, b) == Len(a) <= Len(b) /\ a = SubSeq(b, 1, Len(a))

\* C4 amended: for check "all" or an unknown check, once connect has succeeded
\* and, in the HC variant, gather's own domainRuntime() check has succeeded,
\* the fetchers run once each in the fixed order, none is skipped whichever
\* fetchers fail, and the returned payload has all seven section keys.
C4_AllFetchersAfterConnectAndDomain ==
    (connected = "ok" /\ (variant = "HC" => domain = "ok")
        /\ argv.check \notin NamedChecks) =>
        /\ pc \in {"dispatch", "returned", "done"}
        /\ IsPrefix(fetched, Sections)
        /\ pc \in {"returned", "done"} =>
              /\ fetched = Sections
              /\ \A sec \in SectionSet : HasField(payload, sec)

\* Check "all" finished although every one of the seven fetchers failed.
C4_Witness ==
    /\ pc = "done"
    /\ argv.check = "all"
    /\ connected = "ok"
    /\ {e.section : e \in errlog} = SectionSet
    /\ fetched = Sections

\* C5: every invocation of main ends having written exactly one JSON object
\* to standard output, with no unhandled exception and no early exit.
C5_ExactlyOneObject ==
    Terminated => pc = "done" /\ Len(stdout) = 1 /\ stdout[1].t = "map"

\* C6: a generatedAt or check field of the payload obtained from the fixture
\* reaches the output unchanged.
C6_MetadataKept ==
    (pc = "done" /\ sample.t = "map") =>
        /\ HasField(sample, "generatedAt") =>
              DictGet(stdout[1], JStr("generatedAt")) = DictGet(sample, JStr("generatedAt"))
        /\ HasField(sample, "check") =>
              DictGet(stdout[1], JStr("check")) = DictGet(sample, JStr("check"))

\* C7: every JSON object written to the output, the error object of a failed
\* connect included, has a generatedAt and a check field.
C7_OutputHasMetadata ==
    \A i \in DOMAIN stdout :
        HasField(stdout[i], "generatedAt") /\ HasField(stdout[i], "check")

\* The backend of this fetcher call yields two objects that become two
\* records and then fails: the enumeration raises, or a third object cannot
\* be read.
TwoRecordsThenFailure ==
    /\ fbackend.dr = "ok" /\ fbackend.top = "ok"
    /\ Len(fbackend.objs) >= 2
    /\ fbackend.objs[1].fail = "none" /\ fbackend.objs[2].fail = "none"
    /\ Truthy(fbackend.objs[1].name) /\ Truthy(fbackend.objs[2].name)
    /\ fbackend.objs[1].name # fbackend.objs[2].name
    /\ \/ Len(fbackend.objs) = 2 /\ fbackend.iter = "raise"
       \/ /\ Len(fbackend.objs) = 3 /\ fbackend.iter = "ok"
          /\ fbackend.objs[3].fail \in {"getName", "attr", "notDict"}

\* The records of the first two objects, as a call without the failure
\* returns them.
FirstTwoRecords ==
    fetch(variant, fsection,
          [fbackend EXCEPT !.objs = SubSeq(fbackend.objs, 1, 2), !.iter = "ok"],
          InitialErrorCounters).result

\* C3: a fetcher whose backend fails after two objects became records
\* returns those two records plus exactly one more record, whose name is
\* "ERROR".
C3_TwoRecordsPlusOneError ==
    (fpc = "done" /\ TwoRecordsThenFailure) =>
        /\ Cardinality(DOMAIN fresult.v) = 3
        /\ \A k \in DOMAIN FirstTwoRecords.v :
              HasKey(fresult, k) /\ DictGet(fresult, k) = FirstTwoRecords.v[k]
        /\ Cardinality({k \in DOMAIN fresult.v :
                          DictGet(fresult.v[k], JStr("name")) = JStr("ERROR")}) = 1

\* C8: normalize_collections(normalize_collections(x)) equals
\* normalize_collections(x) for every value x, lists of lists included.
C8_Idempotent == npc = "twice" => nout2 = nout

CallsFor(category, upto) == {j \in 1..upto : klog[j].category = category}

\* C9: the k-th _get_error_key call for a category returns
\* "<category>_error_<k>", k counting from 1 per category, registered or
\* not, and no two calls return the same key.
C9_ErrorKeys ==
    /\ \A i \in DOMAIN klog :
          klog[i].key = klog[i].category \o "_error_"
                            \o ToString(Cardinality(CallsFor(klog[i].category, i)))
    /\ \A i, j \in DOMAIN klog : i # j => klog[i].key # klog[j].key

\* Two calls for one registered category, and calls for an unregistered
\* category and for the category that is spelled like a key.
C9_Witness ==
    /\ Cardinality(CallsFor("clusters", Len(klog))) >= 2
    /\ CallsFor("custom", Len(klog)) # {}
    /\ CallsFor("clusters_error_1", Len(klog)) # {}

\* C10 as stated: every gather invocation starts with every counter at 0, so
\* each invocation records its failure in a category under
\* "<category>_error_1".
C10_CountersScopedToInvocation ==
    /\ pc = "start" => \A c \in DOMAIN error_counters : error_counters[c] = 0
    /\ \A e \in errlog : e.key = error_category(e.section) \o "_error_1"

\* The failures recorded for a section up to and including an invocation.
FailuresUpTo(section, n) ==
    {d \in errlog : d.section = section /\ d.invocation <= n}

\* C10 amended: the counters are 0 when the process starts and gather never
\* resets them: the failure an invocation records in a category is keyed
\* "<category>_error_<n>", n counting the invocations of this process that
\* recorded a failure in that category so far; only the first is "_error_1".
C10_CountersScopedToProcess ==
    /\ (invocation = 1 /\ pc = "start") =>
          \A c \in DOMAIN error_counters : error_counters[c] = 0
    /\ \A e \in errlog :
          e.key = error_category(e.section) \o "_error_"
                      \o ToString(Cardinality(FailuresUpTo(e.section, e.invocation)))

\* Two consecutive invocations each recorded a failure in the same category.
C10_Witness ==
    \E e, d \in errlog :
        e.section = d.section /\ e.invocation = 1 /\ d.invocation = 2

\* The fixture as load_sample_payload normalizes it.
NormalizedFixture == normalize_collections(variant, fixture.doc, JNull)

\* The sample has been loaded from a fixture that normalizes to a map.
SampleLoadedFromMap ==
    pc # "start" /\ fixture.kind = "json" /\ NormalizedFixture.t = "map"

\* C11: from a fixture that normalizes to map P, load_sample_payload returns
\* {k: P[k]} when the check maps to section key k and k is a key of P, and P
\* itself when the check is "all", empty, not in the table, or k is not in P.
C11_FixtureFiltering ==
    SampleLoadedFromMap =>
        LET P == NormalizedFixture
            k == key_map(argv.check)
        IN  sample = IF argv.check \in NamedChecks /\ HasKey(P, k)
                     THEN JMap((k :> DictGet(P, k)))
                     ELSE P

\* Check "cluster" against a fixture with keys clusters and servers returned
\* only the clusters entry.
C11_Witness ==
    /\ SampleLoadedFromMap
    /\ argv.check = "cluster"
    /\ HasField(NormalizedFixture, "clusters") /\ HasField(NormalizedFixture, "servers")
    /\ DOMAIN sample.v = {JStr("clusters")}

\* C12 as stated: for a named check, once connect has succeeded, gather calls
\* exactly the fetcher of that check and returns a payload whose only key is
\* the section key of the check.
C12_SingleFetcherAfterConnect ==
    (connected = "ok" /\ argv.check \in NamedChecks /\ pc = "returned") =>
        /\ fetched = <<key_map(argv.check).v>>
        /\ payload.t = "map" /\ DOMAIN payload.v = {key_map(argv.check)}

\* C12 amended: for a named check, once connect has succeeded and, in the HC
\* variant, gather's own domainRuntime() check has succeeded, gather calls the
\* fetcher of that check and no other, and returns a payload whose only key
\* is the section key of the check.
C12_SingleFetcherAfterConnectAndDomain ==
    (connected = "ok" /\ (variant = "HC" => domain = "ok")
        /\ argv.check \in NamedChecks) =>
        /\ pc \in {"dispatch", "returned", "done"}
        /\ IsPrefix(fetched, <<key_map(argv.check).v>>)
        /\ pc = "returned" =>
              /\ fetched = <<key_map(argv.check).v>>
              /\ payload.t = "map" /\ DOMAIN payload.v = {key_map(argv.check)}

\* gather returned from check "jms", whose fetcher hit a failure.
C12_Witness ==
    /\ pc = "returned"
    /\ argv.check = "jms"
    /\ connected = "ok"
    /\ fetched = <<"jmsServers">>
    /\ \E e \in errlog : e.section = "jmsServers"

\* This fetcher call enumerated all its objects and exactly one of them could
\* not be read.
ReadFailures ==
    {i \in DOMAIN fbackend.objs : fbackend.objs[i].fail \in {"getName", "attr", "notDict"}}
OneBadObject ==
    /\ fpc = "done"
    /\ fbackend.dr = "ok" /\ fbackend.top = "ok" /\ fbackend.iter = "ok"
    /\ Cardinality(ReadFailures) = 1

\* The result holds a record that carries the name of the j-th object.
RecordPresent(j) ==
    \E k \in DOMAIN fresult.v :
        fbackend.objs[j].name \in {DictGet(fresult.v[k], JStr("name")),
                                   DictGet(fresult.v[k], JStr("server"))}

\* C13: when reading one backend object fails, the records of all other
\* enumerated objects, those enumerated after it included, are in the map the
\* fetcher returns.
C13_EnumerationNotAborted ==
    OneBadObject =>
        \A j \in DOMAIN fbackend.objs :
            (fbackend.objs[j].fail = "none" /\ Truthy(fbackend.objs[j].name))
                => RecordPresent(j)

\* The process ran to a zero exit and its standard output embeds a document.
OutputEmbedsDocument ==
    wpc = "done" /\ wout.invoked /\ wproc.exit = "zero" /\ wdoc # Raise

\* C14: from an output that embeds one JSON document, on one line between
\* other text or pretty-printed over several lines after banner lines and
\* before blank lines, run_wlst returns the decoded value of that whole
\* document.
C14_WholeDocumentReturned == OutputEmbedsDocument => wout.returned = wdoc

\* Text without an opening brace or bracket.
NoDelimiter(text) == \A i \in DOMAIN text : text[i] \notin {"{", "["}

\* What run_wlst decodes: the standard output, or the standard error when
\* the former is blank.
RawOutput ==
    IF strip(wproc.stdout) # <<>> THEN strip(wproc.stdout) ELSE strip(wproc.stderr)

\* The candidate: the text from the first opening brace or bracket to the
\* last closing one, <<>> when there is no such span.
Openers == {i \in DOMAIN RawOutput : RawOutput[i] \in {"{", "["}}
Closers == {i \in DOMAIN RawOutput : RawOutput[i] \in {"}", "]"}}
Candidate ==
    IF Openers = {} \/ Closers = {} THEN <<>>
    ELSE LET start == CHOOSE i \in Openers : \A j \in Openers : i <= j
             end == CHOOSE i \in Closers : \A j \in Closers : j <= i
         IN  IF end < start THEN <<>> ELSE SubSeq(RawOutput, start, end)

Decoded == wpc = "done" /\ wout.invoked /\ wproc.exit = "zero" /\ RawOutput # <<>>
ErrorOutcome == wout.returned = JNull /\ wout.messages # <<>>

\* C15: an output without "{" and "[" ends in an error outcome, and so does
\* one whose candidate does not decode; neither returns a payload value.
C15_NoPayloadOnFailure ==
    Decoded =>
        /\ NoDelimiter(RawOutput) => ErrorOutcome
        /\ (Candidate # <<>> /\ ~json_loads(Candidate).ok) => ErrorOutcome

\* The list nvalue has been normalized under nkey.
Items == nvalue.v
ListNormalized == npc # "start" /\ nvalue.t = "list"

Field(e, name) == IF e.t = "map" THEN DictGet(e, JStr(name)) ELSE JNull

\* An element without an identifying field: no record, or a record without
\* a truthy name.
LacksIdentity(e) == ~Truthy(Field(e, "name"))
AllLackIdentity ==
    ListNormalized /\ nkey = JStr("servers")
        /\ \A i \in DOMAIN Items : LacksIdentity(Items[i])

CompositeKey(i) ==
    LET e == Items[i]
        partition == IF Truthy(Field(e, "partition")) THEN Field(e, "partition")
                     ELSE IF Truthy(Field(e, "partitionName")) THEN Field(e, "partitionName")
                     ELSE JStr("default")
    IN  IF Truthy(Field(e, "name"))
        THEN JStr(PyStr(partition) \o "::" \o PyStr(Field(e, "name")))
        ELSE JStr("composites_" \o ToString(i))

\* C17: under "composites" an element with a truthy name is keyed
\* "<partition>::<name>", the partition being its partition field, else its
\* partitionName field, else "default"; an element without a truthy name
\* gets the synthetic key.
C17_CompositeKeying ==
    (ListNormalized /\ nkey = JStr("composites")) =>
        /\ nout.t = "map"
        /\ DOMAIN nout.v = {CompositeKey(i) : i \in DOMAIN Items}

\* Records with a partition, with only a partitionName that counts, with
\* neither, and without a name were keyed under "composites".
C17_Witness ==
    /\ ListNormalized /\ nkey = JStr("composites") /\ nout.t = "map"
    /\ Len(Items) = 3
    /\ Items[1] = WithField(WithField(Rec(JStr("a")), "partition", JStr("")),
                            "partitionName", JStr("p2"))
    /\ Items[2] = Rec(JStr("a"))
    /\ Items[3] = JMap((JStr("server") :> JStr("s")))
    /\ DOMAIN nout.v = {JStr("p2::a"), JStr("default::a"), JStr("composites_3")}

\* The key the i-th element is stored under.
ElementKey(i) ==
    IF Items[i].t = "map"
    THEN PyOr(key_getter(nkey, Items[i]), synthetic_key(nkey, i))
    ELSE synthetic_key(nkey, i)

\* The last element stored under key k.
LastWith(k) ==
    CHOOSE i \in DOMAIN Items :
        /\ PyEq(ElementKey(i), k)
        /\ \A j \in DOMAIN Items : PyEq(ElementKey(j), k) => j <= i

\* C18: the normalized map has one entry per distinct key, and the entry of a
\* key several elements yield is the normalization of the last of them.
C18_LastWriteWins ==
    (ListNormalized /\ nout # Raise) =>
        /\ \A i \in DOMAIN Items : HasKey(nout, ElementKey(i))
        /\ \A k \in DOMAIN nout.v :
              /\ \E i \in DOMAIN Items : PyEq(ElementKey(i), k)
              /\ nout.v[k] = normalize_collections(variant, Items[LastWith(k)], JNull)
        /\ \A k, m \in DOMAIN nout.v : PyEq(k, m) => k = m

\* Two different records named "a" were normalized, the later one last.
C18_Witness ==
    /\ ListNormalized /\ nkey = JStr("servers") /\ nout # Raise
    /\ Len(Items) = 3
    /\ Items[1] = Rec(JStr("a"))
    /\ Items[2] = Rec(JNum(1))
    /\ Items[3] = WithField(Rec(JStr("a")), "server", JStr("s"))
    /\ Cardinality(DOMAIN nout.v) = 2
    /\ nout.v[JStr("a")] = Items[3]

\* The key C19 gives the i-th element: under "threads" the server, else the
\* name; under any other current_key the name; else the synthetic key.
SyntheticKey(i) ==
    JStr((IF nkey = JNull THEN "item" ELSE nkey.v) \o "_" \o ToString(i))
ThreadOrNameKey(i) ==
    LET e == Items[i]
    IN  CASE nkey = JStr("threads") /\ Truthy(Field(e, "server")) -> Field(e, "server")
          [] Truthy(Field(e, "name")) -> Field(e, "name")
          [] OTHER -> SyntheticKey(i)

SameKeys(A, B) ==
    /\ \A a \in A : \E b \in B : PyEq(a, b)
    /\ \A b \in B : \E a \in A : PyEq(a, b)

\* C19 as stated: under "threads" a record is keyed by its server, else its
\* name, else the synthetic key; under every other current_key by its name
\* when truthy.
C19_ThreadKeying ==
    (ListNormalized /\ nout # Raise) =>
        SameKeys(DOMAIN nout.v, {ThreadOrNameKey(i) : i \in DOMAIN Items})

\* C19 amended: as stated, for every current_key other than "composites";
\* and when the key so chosen for a record is a list or a map,
\* normalize_collections raises instead of returning a map.
C19_ThreadKeyingExceptComposites ==
    (ListNormalized /\ nkey # JStr("composites")) =>
        /\ (\E i \in DOMAIN Items : ~Hashable(ThreadOrNameKey(i))) => nout = Raise
        /\ nout # Raise =>
              SameKeys(DOMAIN nout.v, {ThreadOrNameKey(i) : i \in DOMAIN Items})

\* Under "threads", a record with server and name, one with a name only and
\* one with neither were keyed.
C19_Witness ==
    /\ ListNormalized /\ nkey = JStr("threads") /\ nout # Raise
    /\ Len(Items) = 3
    /\ Items[1] = WithField(Rec(JStr("a")), "server", JStr("s"))
    /\ Items[2] = Rec(JStr("a"))
    /\ Items[3] = EmptyMap
    /\ DOMAIN nout.v = {JStr("s"), JStr("a"), JStr("threads_3")}

\* C20: normalize_collections raises for no JSON value, records whose name
\* is a number, a boolean, a list or a map included.
C20_NeverRaises == ListNormalized => nout # Raise

\* C21: every key of a map normalize_collections builds from a list is a
\* string, whatever the type of the elements' identifying fields.
C21_KeysAreStrings ==
    (ListNormalized /\ nout.t = "map") =>
        \A k \in DOMAIN nout.v : k.t = "str"

\* The keys under which this fetcher call stored an error record: the keys
\* the error tracker (HC) or next_key with an error prefix (root) produced.
ErrorEntries ==
    {k \in DOMAIN fresult.v : k.t = "str" /\ IsSubstring("_error_", k.v)}

\* C23: every error record a fetcher inserts has the field name equal to
\* "ERROR" and the field state equal to the failure message.
C23_ErrorRecordShape ==
    fpc = "done" =>
        \A k \in ErrorEntries :
            /\ DictGet(fresult.v[k], JStr("name")) = JStr("ERROR")
            /\ DictGet(fresult.v[k], JStr("state"))
                  = JStr(failure_message(variant, fsection, fbackend))

\* The backend context of this fetcher call could not be obtained: the
\* domainRuntime global is absent, or calling it raises.
NoDomainRuntime == fpc = "done" /\ fbackend.dr # "ok"

\* C24: a fetcher that cannot obtain the backend context returns a map with
\* exactly one entry, and that entry is an error record.
C24_SingleErrorEntry ==
    NoDomainRuntime =>
        /\ Cardinality(DOMAIN fresult.v) = 1
        /\ error_keys(fresult) = DOMAIN fresult.v

\* This fetcher call enumerated all its objects, every one of them answering,
\* and the names the objects carry are pairwise distinct.
AllObjectsRead ==
    /\ fpc = "done"
    /\ fbackend.dr = "ok" /\ fbackend.top = "ok" /\ fbackend.iter = "ok"
    /\ \A i \in DOMAIN fbackend.objs : fbackend.objs[i].fail = "none"
    /\ \A i, j \in DOMAIN fbackend.objs :
          (i # j /\ Truthy(fbackend.objs[i].name))
              => fbackend.objs[i].name # fbackend.objs[j].name

\* C29: when the names of the enumerated objects are pairwise distinct or
\* missing, the map a fetcher returns holds one record per enumerated object.
C29_NoObjectLost ==
    AllObjectsRead =>
        Cardinality(DOMAIN fresult.v) = Len(fbackend.objs)

\* run_wlst got as far as parsing the output of the process, which is not
\* empty once trimmed.
Trimmed ==
    IF strip(wproc.stdout) # <<>> THEN strip(wproc.stdout) ELSE strip(wproc.stderr)
OutputParsed ==
    /\ wpc = "done" /\ ~unconfigured(wconf)
    /\ \/ wproc.exit = "zero"
       \/ wproc.exit = "nonzero" /\ parses_partial_output(variant, wconf, wproc)
    /\ Trimmed # <<>>

\* The lines of the trimmed output, and those that qualify: trimmed, they
\* start with a bracket and decode as JSON.
Lines == splitlines(Trimmed)
Qualifies(i) ==
    starts_with_bracket(strip(Lines[i])) /\ json_loads(strip(Lines[i])).ok
LastQualifying ==
    CHOOSE i \in DOMAIN Lines :
        Qualifies(i) /\ \A j \in DOMAIN Lines : Qualifies(j) => j <= i

\* C25: the result is the decoded value of the last line that starts with a
\* bracket and decodes, lines that start with a bracket and do not decode
\* being skipped; only when no line qualifies is the whole trimmed text
\* decoded, and when that fails nothing is returned.
C25_ReverseLineScan ==
    OutputParsed =>
        IF \E i \in DOMAIN Lines : Qualifies(i)
        THEN wout.returned = json_loads(strip(Lines[LastQualifying])).v
        ELSE IF json_loads(Trimmed).ok
             THEN wout.returned = json_loads(Trimmed).v
             ELSE wout.returned = JNull

\* The last line starts with a bracket and does not decode, a line between
\* does not start with one, and the first line was decoded and returned.
C25_Witness ==
    /\ OutputParsed
    /\ Len(Lines) = 3
    /\ starts_with_bracket(Lines[3]) /\ ~Qualifies(3)
    /\ ~starts_with_bracket(Lines[2])
    /\ Qualifies(1)
    /\ wout.returned = JList(<<JNum(1)>>)

\* The output as run_wlst parses it after a zero exit.
AsForZeroExit == run_wlst(variant, wconf, [wproc EXCEPT !.exit = "zero"])

\* C26: after a non-zero exit run_wlst returns nothing and does not parse,
\* unless continue_on_error is set and the process wrote something, and then
\* it returns what it returns for the same output after a zero exit; with
\* the executable or the script not configured no process is started.
C26_ExitStatusHandling ==
    wpc = "done" =>
        /\ unconfigured(wconf) => (~wout.invoked /\ wout.returned = JNull)
        /\ (~unconfigured(wconf) /\ wproc.exit = "nonzero") =>
              IF wconf.continue_on_error
                    /\ (wproc.stdout # <<>> \/ wproc.stderr # <<>>)
              THEN wout.returned = AsForZeroExit.returned
              ELSE wout.returned = JNull /\ wout.messages = <<"returned nonzero">>

\* The HC wrapper, asked to continue, returned the document a failed process
\* had printed.
C26_Witness ==
    /\ wpc = "done" /\ variant = "HC" /\ wconf.continue_on_error
    /\ ~unconfigured(wconf) /\ wproc.exit = "nonzero"
    /\ wout.returned = JMap((JStr("k") :> JNum(1)))
    /\ wout.returned = wdoc

\* The other script variant.
OtherVariant == IF variant = "root" THEN "HC" ELSE "root"

\* C27: for every value and every current_key the normalizers of the two
\* variants return equal results, although the root variant recurses into a
\* record of a list without current_key and the HC variant with it.
C27_VariantsEquivalent ==
    npc # "start" /\ npc # "idle" =>
        nout = normalize_collections(OtherVariant, nvalue, nkey)

\* Under "threads", a record that holds a list of records under "servers"
\* was normalized, the list inside it included.
C27_Witness ==
    /\ npc = "once" /\ nkey = JStr("threads") /\ variant = "HC"
    /\ nvalue.t = "list" /\ Len(nvalue.v) = 2
    /\ nvalue.v[2] = WithField(Rec(JStr("b")), "servers",
                               JList(<<JList(<<JNum(1)>>), EmptyMap>>))
    /\ nout.t = "map"
    /\ DOMAIN nout.v[JStr("b")].v[JStr("servers")].v = {JStr("servers_1"), JStr("servers_2")}

\* The identifying field of the i-th element under nkey, None when it has
\* none; and the lists whose identifying fields differ pairwise.
NaturalKey(i) ==
    IF Items[i].t = "map" THEN key_getter(nkey, Items[i]) ELSE JNull
NaturalKeysDistinct ==
    \A i, j \in DOMAIN Items :
        (i # j /\ Truthy(NaturalKey(i))) => ~PyEq(NaturalKey(i), NaturalKey(j))

\* C28: a list whose elements have no identifying field or pairwise
\* different ones normalizes to a map with as many entries as the list has
\* elements.
C28_NoElementLost ==
    (ListNormalized /\ nout.t = "map" /\ NaturalKeysDistinct) =>
        Cardinality(DOMAIN nout.v) = Len(Items)

\* C30: each reporting function processes a section without error, and
\* reports the same (name, record) pairs for the list of records as for the
\* name-keyed map gather emits for it.
C30_SameReportForListAndMap ==
    rpc = "done" =>
        /\ rlisted # Raise
        /\ rmapped # Raise
        /\ rlisted = rmapped

\* The objects of the input as they were before the call.
ObjectsBefore == load(<<>>, hvalue).heap

\* C22: after normalize_collections returns or raises, every list and dict
\* of the input is as it was before the call; and what it returns for a
\* list or a dict is a dict that did not exist before the call.
C22_NoSideEffects ==
    hpc = "done" =>
        /\ \A a \in DOMAIN ObjectsBefore : heap[a] = ObjectsBefore[a]
        /\ read(heap, href) = hvalue
        /\ (hvalue.t \in {"list", "map"} /\ hout # Raise) =>
              /\ hout.t = "ref"
              /\ hout.v \notin DOMAIN ObjectsBefore
              /\ heap[hout.v].t = "map"

\* A list that holds a record with a list of records and a list was
\* normalized: the result is a new dict and its second entry is the list
\* object of the input itself.
C22_Witness ==
    /\ hpc = "done" /\ hkey = JStr("servers") /\ hout.t = "ref"
    /\ hvalue.t = "list" /\ Len(hvalue.v) = 2
    /\ hvalue.v[1] = WithField(Rec(JStr("a")), "threads",
                               JList(<<WithField(Rec(JStr("a")), "server", JStr("s"))>>))
    /\ hvalue.v[2] = JList(<<Rec(JStr("a"))>>)
    /\ heap[hout.v].v[JStr("servers_2")] = heap[href.v].v[2]
    /\ heap[hout.v].v[JStr("servers_2")].v \in DOMAIN ObjectsBefore
    /\ Len(heap) > Len(ObjectsBefore)

\* The value the returned reference stands for is the value the normalizer
\* returns without the store.
StoreAgreesWithValues ==
    hpc = "done" => read(heap, hout) = normalize_collections(variant, hvalue, hkey)
====
